---- MODULE Spec2Model ----
(***************************************************************************)
(* A model of exa's file filter (src/src/fs/filter.rs): the ignore         *)
(* patterns, the two filter entry points and the sorter; of the grid view  *)
(* (src/src/output/grid.rs); and of the table the first exa printed        *)
(* (src/exa.rs, src/column.rs, src/options.rs).                            *)
(*                                                                         *)
(* A file name is a sequence of one-character strings; comparisons work on *)
(* the sequence of its code points.                                        *)
(***************************************************************************)
EXTENDS Integers, Sequences, FiniteSets, TLC

VARIABLES
    files,          \* the Vec<File> the filter works on
    input,          \* the vector as it was handed to the last operation
    filter,         \* the FileFilter
    pattern_input,  \* the strings handed to IgnorePatterns::parse_from_iter
    errors,         \* the Vec<PatternError> parse_from_iter returned
    options,        \* the Options of src/options.rs
    render,         \* the grid::Render: the files' name cells and the grid options
    display,        \* what fit_into_width returned to the last render
    table,          \* the table of cells exa built, the header row included
    column_widths,  \* the widths exa computed for the table's columns
    w,              \* the lines written to the output
    matches,        \* the MatchedFlags of the command line
    term_width,     \* the width of the terminal, if it has one
    deduced,        \* what the last deduce returned
    git,            \* the Git statuses of the repository
    git_path,       \* the path whose status was asked for last
    git_status,     \* the status characters returned for it
    dirs,           \* the directories named on the command line
    painted,        \* the strings of the last painted file name
    unix,           \* the Unix name cache
    ordering,       \* the Orderings compare_files returned for the files' pairs
    op              \* the operation that ran last

gridVars == <<render, display>>

tableVars == <<table, column_widths>>

optVars == <<matches, term_width, deduced>>

gitVars == <<git, git_path, git_status>>

restVars == <<gitVars, dirs, painted, unix, ordering>>

laterVars == <<optVars, restVars>>

vars == <<files, input, filter, pattern_input, errors, options, render, display,
          table, column_widths, w, matches, term_width, deduced, git, git_path,
          git_status, dirs, painted, unix, ordering, op>>

----------------------------------------------------------------------------
(* Bounds *)

\* The longest vector of files handed to the filter.
MaxFiles == 3

\* The longest list of glob strings handed to parse_from_iter.
MaxPatterns == 2

\* The most files given to the grid view.
MaxCells == 4

\* The most files of a directory listed as a table.
MaxRows == 2

\* The widest console the grid is fitted into.
MaxConsoleWidth == 22

----------------------------------------------------------------------------
(* Characters and strings *)

\* The code point of a character (the characters the model's names use).
Ord(c) ==
    CASE c = " " -> 32  [] c = "!" -> 33  [] c = "*" -> 42  [] c = "-" -> 45
      [] c = "." -> 46
      [] c = "/" -> 47
      [] c = "0" -> 48  [] c = "1" -> 49  [] c = "2" -> 50
      [] c = "?" -> 63
      [] c = "D" -> 68  [] c = "F" -> 70  [] c = "T" -> 84  [] c = "X" -> 88
      [] c = "[" -> 91  [] c = "]" -> 93
      [] c = "a" -> 97  [] c = "b" -> 98  [] c = "c" -> 99  [] c = "e" -> 101
      [] c = "f" -> 102 [] c = "i" -> 105 [] c = "l" -> 108 [] c = "r" -> 114
      [] c = "t" -> 116 [] c = "x" -> 120
      [] c = "U+00E9" -> 233
      [] c = "U+0001" -> 1   [] c = "U+0009" -> 9  [] c = "U+000A" -> 10
      [] c = "U+001B" -> 27  [] c = "U+007F" -> 127

\* str.chars(): the code points of a string.
Chars(s) == [i \in 1..Len(s) |-> Ord(s[i])]

\* char::to_lowercase on the ASCII range.
ToLowercase(c) == IF c >= 65 /\ c <= 90 THEN c + 32 ELSE c

\* char::to_digit(10): the digit's value, or -1 for None.
ToDigit(c) == IF c >= 48 /\ c <= 57 THEN c - 48 ELSE -1

\* char::is_whitespace on the ASCII range.
IsWhitespace(c) == c = 32 \/ (c >= 9 /\ c <= 13)

\* Ord::cmp on integers, as a std::cmp::Ordering.
Cmp(a, b) == IF a < b THEN "Less" ELSE IF a > b THEN "Greater" ELSE "Equal"

\* Ord::cmp on strings and on Option<String>: lexicographic by code point,
\* a proper prefix (and the empty string) first.
RECURSIVE StrCmpFrom(_, _, _)
StrCmpFrom(l, r, i) ==
    IF i > Len(l) /\ i > Len(r) THEN "Equal"
    ELSE IF i > Len(l) THEN "Less"
    ELSE IF i > Len(r) THEN "Greater"
    ELSE IF l[i] # r[i] THEN Cmp(l[i], r[i])
    ELSE StrCmpFrom(l, r, i + 1)

StrCmp(l, r) == StrCmpFrom(l, r, 1)

----------------------------------------------------------------------------
(* natord: natural-order comparison *)

\* The digit value at position i, or -1 (no character, or not a digit).
DigitAt(s, i) == IF i <= Len(s) THEN ToDigit(s[i]) ELSE -1

\* The first position from i on that holds no whitespace.
RECURSIVE SkipWhitespace(_, _)
SkipWhitespace(s, i) ==
    IF i <= Len(s) /\ IsWhitespace(s[i]) THEN SkipWhitespace(s, i + 1) ELSE i

RECURSIVE NatNonDigits(_, _, _, _)
RECURSIVE NatDigitsLeft(_, _, _, _)
RECURSIVE NatDigitsRight(_, _, _, _, _)

\* The 'digits_left loop: left-aligned matching of two digit runs, one of
\* which starts with 0 (`015` < `12`).
NatDigitsLeft(l, r, i, j) ==
    LET ll == DigitAt(l, i)
        rr == DigitAt(r, j)
    IN  IF ll >= 0 /\ rr >= 0
        THEN IF ll # rr THEN Cmp(ll, rr) ELSE NatDigitsLeft(l, r, i + 1, j + 1)
        ELSE IF ll >= 0 THEN "Greater"
        ELSE IF rr >= 0 THEN "Less"
        ELSE NatNonDigits(l, r, i, j)

\* The 'digits_right loop: right-aligned matching (`15` < `123`); lastcmp is
\* the first difference, used when both runs have the same length.
NatDigitsRight(l, r, i, j, lastcmp) ==
    LET ll == DigitAt(l, i)
        rr == DigitAt(r, j)
    IN  IF ll >= 0 /\ rr >= 0
        THEN NatDigitsRight(l, r, i + 1, j + 1,
                            IF lastcmp = "Equal" THEN Cmp(ll, rr) ELSE lastcmp)
        ELSE IF ll >= 0 THEN "Greater"
        ELSE IF rr >= 0 THEN "Less"
        ELSE IF lastcmp # "Equal" THEN lastcmp
        ELSE NatNonDigits(l, r, i, j)

\* The 'nondigits loop of natord::compare_iter, with the two iterators at
\* positions i and j.
NatNonDigits(l, r, i0, j0) ==
    LET i  == SkipWhitespace(l, i0)
        j  == SkipWhitespace(r, j0)
        ll == DigitAt(l, i)
        rr == DigitAt(r, j)
    IN  IF i <= Len(l) /\ j <= Len(r)
        THEN IF ll >= 0 /\ rr >= 0
             THEN IF ll = 0 \/ rr = 0
                  THEN IF ll # rr THEN Cmp(ll, rr)
                       ELSE NatDigitsLeft(l, r, i + 1, j + 1)
                  ELSE NatDigitsRight(l, r, i + 1, j + 1, Cmp(ll, rr))
             ELSE IF l[i] # r[j] THEN Cmp(l[i], r[j])
             ELSE NatNonDigits(l, r, i + 1, j + 1)
        ELSE IF i <= Len(l) THEN "Greater"
        ELSE IF j <= Len(r) THEN "Less"
        ELSE "Equal"

\* natord::compare on two names.
NatordCompare(a, b) == NatNonDigits(Chars(a), Chars(b), 1, 1)

\* natord::compare_ignore_case: the same on the lowercased characters.
NatordCompareIgnoreCase(a, b) ==
    LET la == [i \in 1..Len(a) |-> ToLowercase(Ord(a[i]))]
        lb == [i \in 1..Len(b) |-> ToLowercase(Ord(b[i]))]
    IN  NatNonDigits(la, lb, 1, 1)

----------------------------------------------------------------------------
(* Files *)

\* File::ext: the part of the name after its last ".", or empty.
RECURSIVE LastDot(_, _)
LastDot(name, i) ==
    IF i = 0 THEN 0 ELSE IF name[i] = "." THEN i ELSE LastDot(name, i - 1)

Ext(name) ==
    LET p == LastDot(name, Len(name))
    IN  IF p = 0 THEN <<>> ELSE Chars(SubSeq(name, p + 1, Len(name)))

\* Colour::paint: the text between the colour's escape code and the reset.
Paint(code, text) == <<27, 91, 51, code, 109>> \o text \o <<27, 91, 48, 109>>

\* File::type_char: the (painted) character of the file's kind.
type_char(f) ==
    CASE f.kind = "File"         -> <<46>>
      [] f.kind = "Directory"    -> Paint(52, <<100>>)
      [] f.kind = "NamedPipe"    -> Paint(51, <<124>>)
      [] f.kind = "BlockSpecial" -> Paint(53, <<115>>)
      [] f.kind = "Symlink"      -> Paint(54, <<108>>)
      [] OTHER                   -> <<63>>

\* File::is_directory.
is_directory(f) == f.kind = "Directory"

\* A File: its name, its kind and the metadata fields the sorter reads.
MkFile(name, kind, len, ino, mtime, atime, ctime) ==
    [name |-> name, kind |-> kind, len |-> len, ino |-> ino,
     mtime |-> mtime, atime |-> atime, ctime |-> ctime]

F_Dir    == MkFile(<<"D", "i", "r">>,                "Directory", 0,    5, 3, 1, 2)
F_b_txt  == MkFile(<<"b", ".", "t", "x", "t">>,      "File",      100,  2, 1, 2, 2)
F_a_txt  == MkFile(<<"a", ".", "t", "x", "t">>,      "File",      5000, 7, 2, 2, 1)
F_c_TXT  == MkFile(<<"c", ".", "T", "X", "T">>,      "File",      100,  3, 3, 3, 3)
F_file2  == MkFile(<<"f", "i", "l", "e", "2">>,      "File",      5000, 4, 1, 1, 1)
F_file10 == MkFile(<<"f", "i", "l", "e", "1", "0">>, "Directory", 0,    1, 2, 3, 3)
F_File   == MkFile(<<"F", "i", "l", "e">>,           "Symlink",   7,    6, 3, 2, 1)
F_file   == MkFile(<<"f", "i", "l", "e">>,           "File",      7,    6, 1, 1, 2)

F_dot_b  == MkFile(<<".", "b">>,                     "File",      7,    8, 2, 2, 2)

\* The entries the sorter is run on.
SortUniverse ==
    {F_Dir, F_b_txt, F_a_txt, F_c_TXT, F_file2, F_file10, F_File, F_file}

\* The vectors of at most n distinct entries of a set.
Vectors(S, n) ==
    {v \in UNION {[1..k -> S] : k \in 0..n} :
        \A i, j \in DOMAIN v : i # j => v[i] # v[j]}

----------------------------------------------------------------------------
(* SortField and SortCase *)

Sensitive   == "Sensitive"
Insensitive == "Insensitive"
SortCase    == {Sensitive, Insensitive}

Unsorted       == [field |-> "Unsorted",     case |-> "-"]
Name(c)        == [field |-> "Name",         case |-> c]
Extension(c)   == [field |-> "Extension",    case |-> c]
Size           == [field |-> "Size",         case |-> "-"]
FileInode      == [field |-> "FileInode",    case |-> "-"]
ModifiedDate   == [field |-> "ModifiedDate", case |-> "-"]
AccessedDate   == [field |-> "AccessedDate", case |-> "-"]
CreatedDate    == [field |-> "CreatedDate",  case |-> "-"]
FileType       == [field |-> "FileType",     case |-> "-"]

SortField ==
    {Unsorted, Size, FileInode, ModifiedDate, AccessedDate, CreatedDate, FileType}
        \cup {Name(c) : c \in SortCase} \cup {Extension(c) : c \in SortCase}

----------------------------------------------------------------------------
(* FileFilter: sorting *)

\* The tie-break whatever the ordering is.
OrElseTiebreakOnly(order, tiebreak) == tiebreak

\* An ordering, or the tie-break when it is Equal.
OrElse(order, tiebreak) == IF order = "Equal" THEN tiebreak ELSE order

\* compare_files with Unsorted falling through to the comparison by name.
compare_files_unsorted_by_name(self, a, b) ==
    CASE self.sort_field = Unsorted          -> NatordCompare(a.name, b.name)
      [] self.sort_field = Name(Sensitive)   -> NatordCompare(a.name, b.name)
      [] self.sort_field = Name(Insensitive) -> NatordCompareIgnoreCase(a.name, b.name)
      [] self.sort_field = Size              -> Cmp(a.len, b.len)
      [] self.sort_field = FileInode         -> Cmp(a.ino, b.ino)
      [] self.sort_field = ModifiedDate      -> Cmp(a.mtime, b.mtime)
      [] self.sort_field = AccessedDate      -> Cmp(a.atime, b.atime)
      [] self.sort_field = CreatedDate       -> Cmp(a.ctime, b.ctime)
      [] self.sort_field = FileType          ->
            OrElse(StrCmp(type_char(a), type_char(b)),
                   NatordCompare(a.name, b.name))
      [] self.sort_field = Extension(Sensitive) ->
            OrElse(StrCmp(Ext(a.name), Ext(b.name)),
                   NatordCompare(a.name, b.name))
      [] self.sort_field = Extension(Insensitive) ->
            OrElse(StrCmp(Ext(a.name), Ext(b.name)),
                   NatordCompareIgnoreCase(a.name, b.name))

\* compare_files with the operands of the Size comparison swapped.
compare_files_size_descending(self, a, b) ==
    CASE self.sort_field = Unsorted          -> "Equal"
      [] self.sort_field = Name(Sensitive)   -> NatordCompare(a.name, b.name)
      [] self.sort_field = Name(Insensitive) -> NatordCompareIgnoreCase(a.name, b.name)
      [] self.sort_field = Size              -> Cmp(b.len, a.len)
      [] self.sort_field = FileInode         -> Cmp(a.ino, b.ino)
      [] self.sort_field = ModifiedDate      -> Cmp(a.mtime, b.mtime)
      [] self.sort_field = AccessedDate      -> Cmp(a.atime, b.atime)
      [] self.sort_field = CreatedDate       -> Cmp(a.ctime, b.ctime)
      [] self.sort_field = FileType          ->
            OrElse(StrCmp(type_char(a), type_char(b)),
                   NatordCompare(a.name, b.name))
      [] self.sort_field = Extension(Sensitive) ->
            OrElse(StrCmp(Ext(a.name), Ext(b.name)),
                   NatordCompare(a.name, b.name))
      [] self.sort_field = Extension(Insensitive) ->
            OrElse(StrCmp(Ext(a.name), Ext(b.name)),
                   NatordCompareIgnoreCase(a.name, b.name))

\* compare_files with the names compared as plain strings.
compare_files_names_as_strings(self, a, b) ==
    CASE self.sort_field = Unsorted          -> "Equal"
      [] self.sort_field = Name(Sensitive)   -> StrCmp(Chars(a.name), Chars(b.name))
      [] self.sort_field = Name(Insensitive) -> StrCmp(Chars(a.name), Chars(b.name))
      [] self.sort_field = Size              -> Cmp(a.len, b.len)
      [] self.sort_field = FileInode         -> Cmp(a.ino, b.ino)
      [] self.sort_field = ModifiedDate      -> Cmp(a.mtime, b.mtime)
      [] self.sort_field = AccessedDate      -> Cmp(a.atime, b.atime)
      [] self.sort_field = CreatedDate       -> Cmp(a.ctime, b.ctime)
      [] self.sort_field = FileType          ->
            OrElse(StrCmp(type_char(a), type_char(b)),
                   NatordCompare(a.name, b.name))
      [] self.sort_field = Extension(Sensitive) ->
            OrElse(StrCmp(Ext(a.name), Ext(b.name)),
                   NatordCompare(a.name, b.name))
      [] self.sort_field = Extension(Insensitive) ->
            OrElse(StrCmp(Ext(a.name), Ext(b.name)),
                   NatordCompareIgnoreCase(a.name, b.name))

\* FileFilter::compare_files
compare_files(self, a, b) ==
    CASE self.sort_field = Unsorted          -> "Equal"
      [] self.sort_field = Name(Sensitive)   -> NatordCompare(a.name, b.name)
      [] self.sort_field = Name(Insensitive) -> NatordCompareIgnoreCase(a.name, b.name)
      [] self.sort_field = Size              -> Cmp(a.len, b.len)
      [] self.sort_field = FileInode         -> Cmp(a.ino, b.ino)
      [] self.sort_field = ModifiedDate      -> Cmp(a.mtime, b.mtime)
      [] self.sort_field = AccessedDate      -> Cmp(a.atime, b.atime)
      [] self.sort_field = CreatedDate       -> Cmp(a.ctime, b.ctime)
      [] self.sort_field = FileType          ->
            OrElse(StrCmp(type_char(a), type_char(b)),
                   NatordCompare(a.name, b.name))
      [] self.sort_field = Extension(Sensitive) ->
            OrElse(StrCmp(Ext(a.name), Ext(b.name)),
                   NatordCompare(a.name, b.name))
      [] self.sort_field = Extension(Insensitive) ->
            OrElse(StrCmp(Ext(a.name), Ext(b.name)),
                   NatordCompareIgnoreCase(a.name, b.name))

\* The comparator of the directories-first pass:
\* b.is_directory().cmp(&a.is_directory()), with false < true.
compare_dirs_first(a, b) ==
    Cmp(IF is_directory(b) THEN 1 ELSE 0, IF is_directory(a) THEN 1 ELSE 0)

\* The prefix insert_head would skip if it moved x past equal elements too.
RECURSIVE LessOrEqualPrefix(_, _, _, _)
LessOrEqualPrefix(x, s, cmp, k) ==
    IF k < Len(s) /\ cmp[<<s[k + 1], x>>] # "Greater"
    THEN LessOrEqualPrefix(x, s, cmp, k + 1)
    ELSE k

\* insert_head of the standard library's merge sort: x moves right past
\* the leading elements of the sorted tail s that are less than it.
RECURSIVE LessPrefix(_, _, _, _)
LessPrefix(x, s, cmp, k) ==
    IF k < Len(s) /\ cmp[<<s[k + 1], x>>] = "Less"
    THEN LessPrefix(x, s, cmp, k + 1)
    ELSE k

insert_head(x, s, cmp) ==
    LET k == LessPrefix(x, s, cmp, 0)
    IN  SubSeq(s, 1, k) \o <<x>> \o SubSeq(s, k + 1, Len(s))

\* slice::sort_by on a short slice: insertion sort from the back, which is
\* stable. cmp maps a pair of elements to their Ordering.
RECURSIVE sort_by(_, _)
sort_by(v, cmp) ==
    IF Len(v) < 2 THEN v ELSE insert_head(Head(v), sort_by(Tail(v), cmp), cmp)

\* Vec::reverse
Reverse(v) == [i \in 1..Len(v) |-> v[Len(v) + 1 - i]]

Elements(v) == {v[i] : i \in DOMAIN v}

\* sort_files with the directories-first pass run on the vector as it was
\* given, not on the sorted one.
sort_files_regroups_input(self, v) ==
    LET by_key   == [p \in Elements(v) \X Elements(v) |->
                        compare_files(self, p[1], p[2])]
        by_dir   == [p \in Elements(v) \X Elements(v) |->
                        compare_dirs_first(p[1], p[2])]
        sorted   == sort_by(v, by_key)
        reversed == IF self.reverse THEN Reverse(sorted) ELSE sorted
    IN  IF self.list_dirs_first THEN sort_by(v, by_dir) ELSE reversed

\* sort_files with the reversal after the directories-first pass.
sort_files_reverse_last(self, v) ==
    LET by_key   == [p \in Elements(v) \X Elements(v) |->
                        compare_files(self, p[1], p[2])]
        by_dir   == [p \in Elements(v) \X Elements(v) |->
                        compare_dirs_first(p[1], p[2])]
        sorted   == sort_by(v, by_key)
        grouped  == IF self.list_dirs_first THEN sort_by(sorted, by_dir) ELSE sorted
    IN  IF self.reverse THEN Reverse(grouped) ELSE grouped

\* FileFilter::sort_files
sort_files(self, v) ==
    LET by_key   == [p \in Elements(v) \X Elements(v) |->
                        compare_files(self, p[1], p[2])]
        by_dir   == [p \in Elements(v) \X Elements(v) |->
                        compare_dirs_first(p[1], p[2])]
        sorted   == sort_by(v, by_key)
        reversed == IF self.reverse THEN Reverse(sorted) ELSE sorted
    IN  IF self.list_dirs_first THEN sort_by(reversed, by_dir) ELSE reversed

----------------------------------------------------------------------------
(* glob::Pattern *)

\* std::path::is_separator
is_separator(c) == c = 47

Token(t, c, cs) == [t |-> t, c |-> c, cs |-> cs]

\* parse_char_specifiers: the characters a class between "[" and "]" names,
\* "a-c" being a range.
RECURSIVE parse_char_specifiers(_, _)
parse_char_specifiers(s, i) ==
    IF i > Len(s) THEN {}
    ELSE IF i + 2 <= Len(s) /\ s[i + 1] = 45
         THEN (s[i]..s[i + 2]) \cup parse_char_specifiers(s, i + 3)
         ELSE {s[i]} \cup parse_char_specifiers(s, i + 1)

\* The first position from i on that holds c, or 0.
RECURSIVE Position(_, _, _)
Position(s, c, i) ==
    IF i > Len(s) THEN 0 ELSE IF s[i] = c THEN i ELSE Position(s, c, i + 1)

\* The end of the run of "*" that starts at i (the first position after it).
RECURSIVE StarsEnd(_, _)
StarsEnd(s, i) == IF i <= Len(s) /\ s[i] = 42 THEN StarsEnd(s, i + 1) ELSE i

PatternOk(tokens)     == [ok |-> TRUE,  tokens |-> tokens, pos |-> 0, msg |-> ""]
PatternErr(pos, msg)  == [ok |-> FALSE, tokens |-> <<>>, pos |-> pos, msg |-> msg]

\* The loop of Pattern::new over the characters s from position i (1-based;
\* the error's pos is 0-based as in the crate).
RECURSIVE PatternNewFrom(_, _, _)
PatternNewFrom(s, i, tokens) ==
    IF i > Len(s) THEN PatternOk(tokens)
    ELSE IF s[i] = 63
    THEN PatternNewFrom(s, i + 1, Append(tokens, Token("AnyChar", 0, {})))
    ELSE IF s[i] = 42
    THEN LET e     == StarsEnd(s, i)
             count == e - i
         IN  IF count > 2
             THEN PatternErr(i - 1, "ERROR_WILDCARDS")
             ELSE IF count = 2
             THEN IF (i = 1 \/ is_separator(s[i - 1]))
                      /\ (e > Len(s) \/ is_separator(s[e]))
                  THEN LET next == IF e > Len(s) THEN e ELSE e + 1
                           dup  == Len(tokens) > 1
                                   /\ tokens[Len(tokens)].t = "AnyRecursiveSequence"
                       IN  PatternNewFrom(s, next,
                               IF dup THEN tokens
                               ELSE Append(tokens, Token("AnyRecursiveSequence", 0, {})))
                  ELSE PatternErr(i - 1, "ERROR_RECURSIVE_WILDCARDS")
             ELSE PatternNewFrom(s, e, Append(tokens, Token("AnySequence", 0, {})))
    ELSE IF s[i] = 91
    THEN IF i + 3 <= Len(s) /\ s[i + 1] = 33
         THEN LET j == Position(s, 93, i + 3)
              IN  IF j = 0 THEN PatternErr(i - 1, "ERROR_INVALID_RANGE")
                  ELSE PatternNewFrom(s, j + 1,
                          Append(tokens, Token("AnyExcept", 0,
                              parse_char_specifiers(SubSeq(s, i + 2, j - 1), 1))))
         ELSE IF i + 2 <= Len(s) /\ s[i + 1] # 33
         THEN LET j == Position(s, 93, i + 2)
              IN  IF j = 0 THEN PatternErr(i - 1, "ERROR_INVALID_RANGE")
                  ELSE PatternNewFrom(s, j + 1,
                          Append(tokens, Token("AnyWithin", 0,
                              parse_char_specifiers(SubSeq(s, i + 1, j - 1), 1))))
         ELSE PatternErr(i - 1, "ERROR_INVALID_RANGE")
    ELSE PatternNewFrom(s, i + 1, Append(tokens, Token("Char", s[i], {})))

\* glob::Pattern::new
PatternNew(str) == PatternNewFrom(Chars(str), 1, <<>>)

\* Whether a token other than a sequence accepts the character c.
TokenAccepts(tok, c) ==
    CASE tok.t = "AnyChar"   -> TRUE
      [] tok.t = "AnyWithin" -> c \in tok.cs
      [] tok.t = "AnyExcept" -> c \notin tok.cs
      [] tok.t = "Char"      -> c = tok.c
      [] OTHER               -> FALSE

RECURSIVE matches_from(_, _, _, _)
RECURSIVE SequenceLoop(_, _, _, _)

\* The `while let Some(c) = file.next()` loop of a "*" or "**" token: try
\* the rest of the pattern after every further character.
SequenceLoop(tokens, ti, file, fi) ==
    IF fi > Len(file) THEN matches_from(tokens, ti + 1, file, fi)
    ELSE IF tokens[ti].t = "AnyRecursiveSequence" /\ ~is_separator(file[fi])
    THEN SequenceLoop(tokens, ti, file, fi + 1)
    ELSE LET m == matches_from(tokens, ti + 1, file, fi + 1)
         IN  IF m # "SubPatternDoesntMatch" THEN m
             ELSE SequenceLoop(tokens, ti, file, fi + 1)

\* Pattern::matches_from under the default MatchOptions.
matches_from(tokens, ti, file, fi) ==
    IF ti > Len(tokens)
    THEN IF fi > Len(file) THEN "Match" ELSE "SubPatternDoesntMatch"
    ELSE IF tokens[ti].t \in {"AnySequence", "AnyRecursiveSequence"}
    THEN LET m == matches_from(tokens, ti + 1, file, fi)
         IN  IF m # "SubPatternDoesntMatch" THEN m
             ELSE SequenceLoop(tokens, ti, file, fi)
    ELSE IF fi > Len(file) THEN "EntirePatternDoesntMatch"
    ELSE IF ~TokenAccepts(tokens[ti], file[fi]) THEN "SubPatternDoesntMatch"
    ELSE matches_from(tokens, ti + 1, file, fi + 1)

\* glob::Pattern::matches: p is a compiled pattern (its tokens).
PatternMatches(p, name) == matches_from(p, 1, Chars(name), 1) = "Match"

----------------------------------------------------------------------------
(* IgnorePatterns *)

\* IgnorePatterns::empty
IgnorePatternsEmpty == <<>>

\* The loop of parse_from_iter if it returned at the first malformed input.
RECURSIVE ParseLoopAborting(_, _, _, _)
ParseLoopAborting(iter, i, patterns, errs) ==
    IF i > Len(iter) THEN [patterns |-> patterns, errors |-> errs]
    ELSE LET r == PatternNew(iter[i])
         IN  IF r.ok
             THEN ParseLoopAborting(iter, i + 1, Append(patterns, r.tokens), errs)
             ELSE [patterns |-> patterns,
                   errors |-> Append(errs, [pos |-> r.pos, msg |-> r.msg])]

\* IgnorePatterns::parse_from_iter: the loop over the inputs from position
\* i, pushing to patterns or to errors.
RECURSIVE ParseLoop(_, _, _, _)
ParseLoop(iter, i, patterns, errs) ==
    IF i > Len(iter) THEN [patterns |-> patterns, errors |-> errs]
    ELSE LET r == PatternNew(iter[i])
         IN  IF r.ok
             THEN ParseLoop(iter, i + 1, Append(patterns, r.tokens), errs)
             ELSE ParseLoop(iter, i + 1, patterns,
                            Append(errs, [pos |-> r.pos, msg |-> r.msg]))

parse_from_iter(iter) == ParseLoop(iter, 1, <<>>, <<>>)

\* is_ignored with all() in the place of any().
is_ignored_all(patterns, file) ==
    \A i \in DOMAIN patterns : PatternMatches(patterns[i], file.name)

\* IgnorePatterns::is_ignored
is_ignored(patterns, file) ==
    \E i \in DOMAIN patterns : PatternMatches(patterns[i], file.name)

----------------------------------------------------------------------------
(* FileFilter: filtering *)

\* A removal loop that steps over the element after each one it removes.
RECURSIVE RetainSkipping(_, _)
RetainSkipping(v, keep) ==
    IF v = <<>> THEN <<>>
    ELSE IF Head(v) \in keep THEN <<Head(v)>> \o RetainSkipping(Tail(v), keep)
    ELSE IF Len(v) = 1 THEN <<>>
    ELSE <<v[2]>> \o RetainSkipping(Tail(Tail(v)), keep)

\* Vec::retain: the elements that satisfy keep, in their order.
RECURSIVE Retain(_, _)
Retain(v, keep) ==
    IF v = <<>> THEN <<>>
    ELSE IF Head(v) \in keep THEN <<Head(v)>> \o Retain(Tail(v), keep)
    ELSE Retain(Tail(v), keep)

\* FileFilter::filter_child_files
filter_child_files(self, v) ==
    Retain(v, {f \in Elements(v) : ~is_ignored(self.ignore_patterns, f)})

\* filter_argument_files if it hid the dot-files as well.
filter_argument_files_hides_dotfiles(self, v) ==
    Retain(v, {f \in Elements(v) :
                  ~is_ignored(self.ignore_patterns, f) /\ Head(f.name) # "."})

\* FileFilter::filter_argument_files
filter_argument_files(self, v) ==
    Retain(v, {f \in Elements(v) : ~is_ignored(self.ignore_patterns, f)})

----------------------------------------------------------------------------
(* The state machines *)

\* DotFilter
JustFiles       == "JustFiles"
Dotfiles        == "Dotfiles"
DotfilesAndDots == "DotfilesAndDots"
DotFilter       == {JustFiles, Dotfiles, DotfilesAndDots}

\* The entries the filter is run on.
FilterUniverse == {F_b_txt, F_a_txt, F_file2, F_dot_b}

\* The glob strings given to --ignore-glob: three that compile and two
\* that do not.
PatternStrings ==
    { <<"*", ".", "t", "x", "t">>,
      <<"f", "i", "l", "e", "?">>,
      <<"[", "!", "a", "-", "b", "]", "*">>,
      <<"[">>,
      <<"*", "*", "*">> }

PatternLists == UNION {[1..k -> PatternStrings] : k \in 0..MaxPatterns}

\* A FileFilter
FileFilter(dirs_first, field, reverse, dots, patterns) ==
    [list_dirs_first |-> dirs_first, sort_field |-> field, reverse |-> reverse,
     dot_filter |-> dots, ignore_patterns |-> patterns]

\* No grid is being rendered.
NoGrid == render = "none" /\ display = "none"

\* No table has been built.
NoTable == table = <<>> /\ column_widths = <<>>

\* No command line is being deduced.
NoOptions == matches = "none" /\ term_width = "none" /\ deduced = "none"

\* No Git repository is looked at.
NoGit == git = "none" /\ git_path = "none" /\ git_status = "none"

\* No command line, repository, directory argument, painted name or name
\* cache.
NoRest ==
    NoGit /\ dirs = <<>> /\ painted = <<>> /\ unix = "none" /\ ordering = "none"

NoLater == NoOptions /\ NoRest

\* The sorter: any vector of entries and any sort configuration.
InitSort ==
    /\ files \in Vectors(SortUniverse, MaxFiles)
    /\ input = files
    /\ \E d \in BOOLEAN, f \in SortField, r \in BOOLEAN :
          filter = FileFilter(d, f, r, JustFiles, IgnorePatternsEmpty)
    /\ pattern_input = <<>>
    /\ errors = <<>>
    /\ options = "none"
    /\ NoGrid
    /\ NoTable
    /\ NoLater
    /\ w = <<>>
    /\ op = "new"

\* The filter: any vector of entries, the default sort configuration and
\* no ignore pattern yet.
InitFilter ==
    /\ files \in Vectors(FilterUniverse, MaxFiles)
    /\ input = files
    /\ \E dots \in DotFilter :
          filter = FileFilter(FALSE, Name(Sensitive), FALSE, dots, IgnorePatternsEmpty)
    /\ pattern_input = <<>>
    /\ errors = <<>>
    /\ options = "none"
    /\ NoGrid
    /\ NoTable
    /\ NoLater
    /\ w = <<>>
    /\ op = "new"

\* filter.sort_files(&mut files)
SortFiles ==
    /\ input' = files
    /\ files' = sort_files(filter, files)
    /\ op' = "sort_files"
    /\ UNCHANGED <<filter, pattern_input, errors, options, gridVars, tableVars, w,
                   laterVars>>

\* The options are deduced once: the filter gets the patterns that
\* IgnorePatterns::parse_from_iter compiled from the given strings.
ParseFromIter ==
    /\ op = "new"
    /\ \E iter \in PatternLists :
          LET r == parse_from_iter(iter)
          IN  /\ pattern_input' = iter
              /\ filter' = [filter EXCEPT !.ignore_patterns = r.patterns]
              /\ errors' = r.errors
    /\ op' = "parse_from_iter"
    /\ UNCHANGED <<files, input, options, gridVars, tableVars, w, laterVars>>

\* filter.filter_child_files(&mut files)
FilterChildFiles ==
    /\ input' = files
    /\ files' = filter_child_files(filter, files)
    /\ op' = "filter_child_files"
    /\ UNCHANGED <<filter, pattern_input, errors, options, gridVars, tableVars, w,
                   laterVars>>

\* filter.filter_argument_files(&mut files)
FilterArgumentFiles ==
    /\ input' = files
    /\ files' = filter_argument_files(filter, files)
    /\ op' = "filter_argument_files"
    /\ UNCHANGED <<filter, pattern_input, errors, options, gridVars, tableVars, w,
                   laterVars>>

NextSort == SortFiles

NextFilter == ParseFromIter \/ FilterChildFiles \/ FilterArgumentFiles

SpecSort == InitSort /\ [][NextSort]_vars

SpecFilter == InitFilter /\ [][NextFilter]_vars

----------------------------------------------------------------------------
(* Listing a directory: the dot filter *)

\* The name starts with ".".
IsDotName(name) == name # <<>> /\ Head(name) = "."

\* The name is "." or "..".
IsDots(name) == name \in {<<".">>, <<".", ".">>}

\* DotFilter::shows_dotfiles
shows_dotfiles(dots) == dots \in {Dotfiles, DotfilesAndDots}

\* Dir::files: the entries of the directory the dot filter lets through,
\* in the directory's order.
dir_files(dots, entries) ==
    Retain(entries,
           {f \in Elements(entries) :
               IF IsDots(f.name) THEN dots = DotfilesAndDots
               ELSE IF IsDotName(f.name) THEN shows_dotfiles(dots)
               ELSE TRUE})

\* should_display if it showed every file whatever the option.
should_display_everything(self, f) == TRUE

\* Options::should_display
should_display(self, f) ==
    IF self.showInvisibles THEN TRUE ELSE ~IsDotName(f.name)

\* The sort fields of src/options.rs
OptionsSortField == {"Name", "Extension", "Size"}

\* The comparator transform_files hands to sort_by.
transform_compare(self, a, b) ==
    CASE self.sortField = "Name" -> StrCmp(Chars(a.name), Chars(b.name))
      [] self.sortField = "Size" -> Cmp(a.len, b.len)
      [] self.sortField = "Extension" ->
            OrElse(StrCmp(Ext(a.name), Ext(b.name)),
                   StrCmp(Chars(a.name), Chars(b.name)))

\* Options::transform_files
transform_files(self, unordered_files) ==
    LET shown  == Retain(unordered_files,
                         {f \in Elements(unordered_files) : should_display(self, f)})
        order  == [p \in Elements(shown) \X Elements(shown) |->
                      transform_compare(self, p[1], p[2])]
        sorted == sort_by(shown, order)
    IN  IF self.reverse THEN Reverse(sorted) ELSE sorted

\* The columns Options::columns gives without --group.
DefaultColumns == <<"Permissions", "FileSize", "User", "FileName">>

\* An Options
Options(invisibles, field, reverse, columns, header) ==
    [showInvisibles |-> invisibles, sortField |-> field, reverse |-> reverse,
     columns |-> columns, header |-> header]

F_dot    == MkFile(<<".">>,      "Directory", 0, 9,  1, 1, 1)
F_dotdot == MkFile(<<".", ".">>, "Directory", 0, 10, 1, 1, 1)

\* The entries of the listed directory.
DirUniverse == {F_dot, F_dotdot, F_dot_b, F_a_txt, F_file2}

\* The glob strings of the listing: none, or "*.txt".
DirPatternLists == {<<>>, << <<"*", ".", "t", "x", "t">> >>}

\* A directory's entries, with a FileFilter and an Options to list them.
InitDir ==
    /\ files \in Vectors(DirUniverse, MaxFiles)
    /\ input = files
    /\ pattern_input \in DirPatternLists
    /\ \E dots \in DotFilter :
          filter = FileFilter(FALSE, Name(Sensitive), FALSE, dots,
                              parse_from_iter(pattern_input).patterns)
    /\ errors = <<>>
    /\ \E a \in BOOLEAN, f \in OptionsSortField, r \in BOOLEAN :
          options = Options(a, f, r, DefaultColumns, FALSE)
    /\ NoGrid
    /\ NoTable
    /\ NoLater
    /\ w = <<>>
    /\ op = "new"

\* The children of a directory: dir.files(filter.dot_filter) collected,
\* then filter.filter_child_files(&mut children).
DirFiles ==
    /\ input' = files
    /\ files' = filter_child_files(filter, dir_files(filter.dot_filter, files))
    /\ op' = "dir_files"
    /\ UNCHANGED <<filter, pattern_input, errors, options, gridVars, tableVars, w,
                   laterVars>>

\* options.transform_files(&unsorted_files)
TransformFiles ==
    /\ input' = files
    /\ files' = transform_files(options, files)
    /\ op' = "transform_files"
    /\ UNCHANGED <<filter, pattern_input, errors, options, gridVars, tableVars, w,
                   laterVars>>

NextDir == DirFiles \/ TransformFiles

SpecDir == InitDir /\ [][NextDir]_vars

----------------------------------------------------------------------------
(* The grid view *)

\* tg::Filling::Spaces(2): the blank cells between two columns.
Spaces == 2

LeftToRight == "LeftToRight"
TopToBottom == "TopToBottom"

\* grid::Options::direction
direction(opts) == IF opts.across THEN LeftToRight ELSE TopToBottom

\* The tg::Cell of a file: its painted name and the name's width.
name_cell(file) == [contents |-> file.name, width |-> Len(file.name)]

\* The cells render adds to the grid, in the order of the files.
GridCells(fs) == [i \in DOMAIN fs |-> name_cell(fs[i])]

\* Option::None of fit_into_width
DoesNotFit == [fits |-> FALSE, columns |-> 0, num_lines |-> 0, widths |-> <<>>]

CeilDiv(a, b) == (a + b - 1) \div b

\* The largest number of a set of naturals, 0 for the empty set.
Max(S) == IF S = {} THEN 0 ELSE CHOOSE m \in S : \A n \in S : n <= m

RECURSIVE Sum(_)
Sum(q) == IF q = <<>> THEN 0 ELSE Head(q) + Sum(Tail(q))

\* The column of the cell at index i (from 0) in a grid of c columns and
\* r rows: row-major across, column-major down.
ColumnOf(i, c, r, dir) == IF dir = LeftToRight THEN i % c ELSE i \div r

\* The widths of the c columns: each the widest of its cells.
ColumnWidths(cells, c, dir) ==
    LET r == CeilDiv(Len(cells), c)
    IN  [k \in 1..c |->
            Max({cells[i].width : i \in {j \in DOMAIN cells :
                                            ColumnOf(j - 1, c, r, dir) = k - 1}})]

\* The cells a row of these columns takes up, the spacing included.
TotalWidth(widths) ==
    IF widths = <<>> THEN 0 ELSE Sum(widths) + Spaces * (Len(widths) - 1)

\* A layout that reports its number of lines as its number of columns.
LayoutCountsLines(cells, c, dir) ==
    [fits      |-> TRUE,
     columns   |-> IF c = 0 THEN 0 ELSE CeilDiv(Len(cells), c),
     num_lines |-> IF c = 0 THEN 0 ELSE CeilDiv(Len(cells), c),
     widths    |-> ColumnWidths(cells, c, dir)]

\* The layout of c columns.
Layout(cells, c, dir) ==
    [fits      |-> TRUE,
     columns   |-> c,
     num_lines |-> IF c = 0 THEN 0 ELSE CeilDiv(Len(cells), c),
     widths    |-> ColumnWidths(cells, c, dir)]

\* A search that goes up from one column and stops at the first count
\* that fits.
RECURSIVE FitUpFrom(_, _, _, _)
FitUpFrom(cells, c, dir, width) ==
    IF c > Len(cells) THEN DoesNotFit
    ELSE IF TotalWidth(ColumnWidths(cells, c, dir)) <= width
         THEN Layout(cells, c, dir)
         ELSE FitUpFrom(cells, c + 1, dir, width)

\* fit_into_width that takes the first column count that fits going up.
fit_into_width_fewest_columns(cells, dir, width) ==
    IF cells = <<>> THEN Layout(cells, 0, dir)
    ELSE FitUpFrom(cells, 1, dir, width)

\* A search that takes a candidate only if it leaves a cell of the console
\* free.
RECURSIVE FitFromStrictly(_, _, _, _)
FitFromStrictly(cells, c, dir, width) ==
    IF c = 0 THEN DoesNotFit
    ELSE IF TotalWidth(ColumnWidths(cells, c, dir)) < width
         THEN Layout(cells, c, dir)
         ELSE FitFromStrictly(cells, c - 1, dir, width)

\* The candidates from c columns downwards: the first that fits.
RECURSIVE FitFrom(_, _, _, _)
FitFrom(cells, c, dir, width) ==
    IF c = 0 THEN DoesNotFit
    ELSE IF TotalWidth(ColumnWidths(cells, c, dir)) <= width
         THEN Layout(cells, c, dir)
         ELSE FitFrom(cells, c - 1, dir, width)

\* fit_into_width that has no layout for a grid without cells.
fit_into_width_needs_a_cell(cells, dir, width) ==
    FitFrom(cells, Len(cells), dir, width)

\* tg::Grid::fit_into_width
fit_into_width(cells, dir, width) ==
    IF cells = <<>> THEN Layout(cells, 0, dir)
    ELSE FitFrom(cells, Len(cells), dir, width)

\* The index (from 1) of the cell at row y and column x (from 0).
CellAt(y, x, layout, dir) ==
    IF dir = LeftToRight THEN y * layout.columns + x + 1
    ELSE y + layout.num_lines * x + 1

\* What the Display writes: a line for each row, holding the contents of
\* the row's cells from the left.
DisplayLines(cells, layout, dir) ==
    [y \in 1..layout.num_lines |->
        LET at == [x \in 1..layout.columns |-> CellAt(y - 1, x - 1, layout, dir)]
            on == SelectSeq(at, LAMBDA i : i <= Len(cells))
        IN  [x \in DOMAIN on |-> cells[on[x]].contents]]

\* The lines of the fallback: each file's name on a line of its own.
NameLines(fs) == [i \in DOMAIN fs |-> <<name_cell(fs[i]).contents>>]

\* render that has no fallback to a line for each file.
render_without_fallback(self) ==
    LET cells == GridCells(self.files)
        fitted == fit_into_width(cells, direction(self.opts), self.opts.console_width)
    IN  [display |-> fitted,
         w       |-> IF fitted # DoesNotFit
                     THEN DisplayLines(cells, fitted, direction(self.opts))
                     ELSE <<>>]

\* grid::Render::render: what fit_into_width returned and the lines written.
render_grid(self) ==
    LET cells == GridCells(self.files)
        fitted == fit_into_width(cells, direction(self.opts), self.opts.console_width)
    IN  [display |-> fitted,
         w       |-> IF fitted # DoesNotFit
                     THEN DisplayLines(cells, fitted, direction(self.opts))
                     ELSE NameLines(self.files)]

\* The files given to the grid view: names 2, 3, 5 and 6 characters wide.
GridUniverse == {F_dot_b, F_Dir, F_b_txt, F_file10}

GridVectors == UNION {[1..k -> GridUniverse] : k \in 0..MaxCells}

\* A Render of any files in either direction for any console width.
InitGrid ==
    /\ \E fs \in GridVectors, across \in BOOLEAN, cw \in 0..MaxConsoleWidth :
          render = [files |-> fs,
                    opts  |-> [across |-> across, console_width |-> cw]]
    /\ display = "none"
    /\ files = <<>>
    /\ input = <<>>
    /\ filter = FileFilter(FALSE, Name(Sensitive), FALSE, JustFiles, IgnorePatternsEmpty)
    /\ pattern_input = <<>>
    /\ errors = <<>>
    /\ options = "none"
    /\ NoTable
    /\ NoLater
    /\ w = <<>>
    /\ op = "new"

\* render.render(&mut w)
Render ==
    /\ op = "new"
    /\ display' = render_grid(render).display
    /\ w' = render_grid(render).w
    /\ op' = "render"
    /\ UNCHANGED <<files, input, filter, pattern_input, errors, options,
                   render, tableVars, laterVars>>

NextGrid == Render

SpecGrid == InitGrid /\ [][NextGrid]_vars

----------------------------------------------------------------------------
(* The table of the first exa *)

\* The UTF-8 bytes of a string given by its code points (below U+0800).
RECURSIVE Utf8(_)
Utf8(points) ==
    IF points = <<>> THEN <<>>
    ELSE LET c == Head(points)
         IN  (IF c < 128 THEN <<c>> ELSE <<192 + (c \div 64), 128 + (c % 64)>>)
             \o Utf8(Tail(points))

\* Plain.underline().paint(text): ESC[4m text ESC[0m
Underline(text) == <<27, 91, 52, 109>> \o text \o <<27, 91, 48, 109>>

\* The rest of s after the first "m", the end of an escape sequence.
RECURSIVE AfterM(_)
AfterM(s) ==
    IF s = <<>> THEN <<>>
    ELSE IF Head(s) = 109 THEN Tail(s)
    ELSE AfterM(Tail(s))

\* colours::strip_formatting: the string without its escape sequences
\* ESC[...m.
RECURSIVE strip_formatting(_)
strip_formatting(s) ==
    IF s = <<>> THEN <<>>
    ELSE IF Head(s) = 27 THEN strip_formatting(AfterM(Tail(s)))
    ELSE <<Head(s)>> \o strip_formatting(Tail(s))

\* Column::alignment
alignment(column) ==
    CASE column = "FileSize"  -> "Right"
      [] column = "HardLinks" -> "Right"
      [] column = "Inode"     -> "Right"
      [] column = "Blocks"    -> "Right"
      [] OTHER                -> "Left"

\* Column::header
header(column) ==
    CASE column = "Permissions" -> <<80, 101, 114, 109, 105, 115, 115, 105, 111, 110, 115>>
      [] column = "FileName"    -> <<78, 97, 109, 101>>
      [] column = "FileSize"    -> <<83, 105, 122, 101>>
      [] column = "Blocks"      -> <<66, 108, 111, 99, 107, 115>>
      [] column = "User"        -> <<85, 115, 101, 114>>
      [] column = "Group"       -> <<71, 114, 111, 117, 112>>
      [] column = "HardLinks"   -> <<76, 105, 110, 107, 115>>
      [] column = "Inode"       -> <<105, 110, 111, 100, 101>>

\* n spaces
Blanks(n) == [i \in 1..n |-> 32]

\* Alignment::pad_string
pad_string(self, string, string_length, width) ==
    IF self = "Left"
    THEN string \o Blanks(width - string_length)
    ELSE Blanks(width - string_length) \o string

\* File::file_colour, for the files that are not executable
file_colour_paint(f, text) ==
    IF f.kind = "Directory" THEN Paint(52, text) ELSE text

\* File::display: the cell of a file in a column. The permission bits,
\* the formatted size and the names of the user and the group are given
\* with the file.
file_display(f, column) ==
    CASE column = "Permissions" -> type_char(f) \o f.bits
      [] column = "FileName"    -> file_colour_paint(f, Utf8(Chars(f.name)))
      [] column = "FileSize"    -> Paint(50, f.size_text)
      [] column = "User"        -> f.user
      [] column = "Group"       -> f.group

\* The body of the print loop with the last column padded like the
\* others.
print_field_pads_last(num, columns, cell, field_length, column_length) ==
    (IF num # 0 THEN <<32>> ELSE <<>>)
    \o pad_string(alignment(columns[num + 1]), cell, field_length, column_length)

\* The body of the print loop: what is printed for the cell of column
\* num (from 0).
print_field(num, columns, cell, field_length, column_length) ==
    (IF num # 0 THEN <<32>> ELSE <<>>)
    \o (IF num = Len(columns) - 1
        THEN cell
        ELSE pad_string(alignment(columns[num + 1]), cell, field_length, column_length))

\* The fields of a row from column n on, printed one after the other.
RECURSIVE PrintRow(_, _, _, _, _)
PrintRow(n, columns, row, field_lengths, widths) ==
    IF n > Len(columns) \/ n > Len(row) THEN <<>>
    ELSE print_field(n - 1, columns, row[n], field_lengths[n], widths[n])
         \o PrintRow(n + 1, columns, row, field_lengths, widths)

\* exa from dir.files() on: the table, the widths of its columns and the
\* lines printed. failed: max().unwrap() found no row.
exa(opts, unsorted_files) ==
    LET fs      == transform_files(opts, unsorted_files)
        cols    == opts.columns
        body    == [i \in DOMAIN fs |-> [n \in DOMAIN cols |-> file_display(fs[i], cols[n])]]
        tab     == IF opts.header
                   THEN <<[n \in DOMAIN cols |-> Underline(header(cols[n]))]>> \o body
                   ELSE body
        lengths == [i \in DOMAIN tab |->
                       [n \in DOMAIN cols |-> Len(strip_formatting(tab[i][n]))]]
        failed  == cols # <<>> /\ tab = <<>>
        widths  == IF failed THEN <<>>
                   ELSE [n \in DOMAIN cols |-> Max({lengths[i][n] : i \in DOMAIN tab})]
    IN  [files         |-> fs,
         table         |-> tab,
         lengths       |-> lengths,
         failed        |-> failed,
         column_widths |-> widths,
         w             |-> IF failed THEN <<>>
                           ELSE [i \in DOMAIN tab |->
                                    PrintRow(1, cols, tab[i], lengths[i], widths)]]

\* A file of the listed directory with what its columns are made of.
TableFile(name, kind, len, bits, size_text, user) ==
    [name |-> name, kind |-> kind, len |-> len, bits |-> bits,
     size_text |-> size_text, user |-> user, group |-> <<103>>]

T_ab    == TableFile(<<"a", "b">>, "File", 7,
                     Paint(51, <<114>>) \o <<45>>, <<55>>, <<98, 111>>)
T_x     == TableFile(<<"x">>, "Directory", 12,
                     Paint(51, <<114>>) \o Paint(49, <<119>>), <<49, 50>>, <<195, 169>>)
T_e     == TableFile(<<"U+00E9">>, "File", 7,
                     <<45, 45>>, <<55>>, <<98, 111>>)
T_dot_b == TableFile(<<".", "b">>, "File", 100,
                     <<45, 45>>, <<49, 48, 48>>, <<98, 111>>)

\* The files of the listed directory.
TableUniverse == {T_ab, T_x, T_e, T_dot_b}

\* The column lists of the table.
ColumnLists ==
    { <<"FileName">>,
      <<"Permissions", "FileSize">>,
      <<"FileSize", "User", "FileName">>,
      DefaultColumns }

\* A directory of up to MaxRows files and any Options.
InitTable ==
    /\ files \in Vectors(TableUniverse, MaxRows)
    /\ input = files
    /\ filter = FileFilter(FALSE, Name(Sensitive), FALSE, JustFiles, IgnorePatternsEmpty)
    /\ pattern_input = <<>>
    /\ errors = <<>>
    /\ \E a \in BOOLEAN, f \in OptionsSortField, r \in BOOLEAN,
          cols \in ColumnLists, h \in BOOLEAN :
          options = Options(a, f, r, cols, h)
    /\ NoGrid
    /\ NoTable
    /\ NoLater
    /\ w = <<>>
    /\ op = "new"

\* exa(&options, ..) on the files of the directory
Exa ==
    /\ op = "new"
    /\ LET r == exa(options, files)
       IN  /\ input' = files
           /\ files' = r.files
           /\ table' = r.table
           /\ column_widths' = r.column_widths
           /\ w' = r.w
           /\ op' = IF r.failed THEN "exa_failed" ELSE "exa"
    /\ UNCHANGED <<filter, pattern_input, errors, options, gridVars, laterVars>>

NextTable == Exa

SpecTable == InitTable /\ [][NextTable]_vars

----------------------------------------------------------------------------
(* Properties of the sorter, checked under SpecSort *)

\* The entries of v that are directories, and those that are not, in order.
Directories(v)    == Retain(v, {f \in Elements(v) : is_directory(f)})
NonDirectories(v) == Retain(v, {f \in Elements(v) : ~is_directory(f)})

\* Every directory of v comes before every non-directory.
DirectoriesFirst(v) ==
    \A i, j \in DOMAIN v : (i < j /\ is_directory(v[j])) => is_directory(v[i])

\* The position of entry f in v (the entries of a vector are distinct).
IndexOf(v, f) == CHOOSE i \in DOMAIN v : v[i] = f

\* f comes before g in v.
Before(v, f, g) == IndexOf(v, f) < IndexOf(v, g)

\* The output sort_files gives for the last input under another setting of
\* list_dirs_first and reverse.
OutputWith(dirs_first, reverse) ==
    sort_files([filter EXCEPT !.list_dirs_first = dirs_first,
                              !.reverse = reverse], input)

Sorted == op = "sort_files"

\* C1: with list_dirs_first enabled the output of sort_files has every
\* directory before every non-directory, and the directories among
\* themselves and the non-directories among themselves are in the order
\* they have in the output produced with list_dirs_first disabled.
C1_DirsFirstKeepsGroupOrder ==
    (Sorted /\ filter.list_dirs_first) =>
        /\ DirectoriesFirst(files)
        /\ Directories(files) = Directories(OutputWith(FALSE, filter.reverse))
        /\ NonDirectories(files) = NonDirectories(OutputWith(FALSE, filter.reverse))

\* C1 witness: a sort with list_dirs_first that moved two directories in
\* front of a file that the key order puts before them.
C1_Witness ==
    /\ Sorted /\ filter.list_dirs_first
    /\ Len(Directories(files)) = 2 /\ Len(NonDirectories(files)) = 1
    /\ ~is_directory(OutputWith(FALSE, filter.reverse)[1])

\* a and b are in the same group of the directories-first pass.
SameGroup(a, b) == is_directory(a) = is_directory(b)

\* C2 as claimed: under every setting of reverse and list_dirs_first, two
\* entries whose sort keys compare equal are in the output in the relative
\* order they have in the input.
C2_StableUnderEverySetting ==
    Sorted =>
        \A a, b \in Elements(input) :
            (compare_files(filter, a, b) = "Equal" /\ Before(input, a, b))
                => Before(files, a, b)

\* C2 amended: two entries whose sort keys compare equal and that are in
\* the same directories-first group (any two when list_dirs_first is off)
\* keep their relative order when reverse is off, and are in the opposite
\* relative order when reverse is on.
C2_StableWithinGroup ==
    Sorted =>
        \A a, b \in Elements(input) :
            ( /\ compare_files(filter, a, b) = "Equal"
              /\ Before(input, a, b)
              /\ (filter.list_dirs_first => SameGroup(a, b)) )
                => IF filter.reverse THEN Before(files, b, a)
                                     ELSE Before(files, a, b)

\* C2 witness: a key sort that moved an entry, with two entries of equal
\* key in one group.
C2_Witness ==
    /\ Sorted /\ filter.sort_field # Unsorted /\ ~filter.reverse
    /\ files # input
    /\ \E a, b \in Elements(input) :
          /\ a # b /\ SameGroup(a, b)
          /\ compare_files(filter, a, b) = "Equal"

\* C3 as claimed, in the case reverse off: with sort_field Unsorted the
\* output of sort_files is the input, also when list_dirs_first is enabled.
C3_UnsortedIsIdentity ==
    (Sorted /\ filter.sort_field = Unsorted /\ ~filter.reverse) => files = input

\* C3 amended: with sort_field Unsorted there is no key reordering: the
\* output is the input (read backwards when reverse is on) when
\* list_dirs_first is off, and with list_dirs_first on it is the
\* directories of that sequence, in its order, followed by its
\* non-directories, in its order.
C3_UnsortedKeepsOrderWithinGroups ==
    (Sorted /\ filter.sort_field = Unsorted) =>
        LET base == IF filter.reverse THEN Reverse(input) ELSE input
        IN  IF filter.list_dirs_first
            THEN files = Directories(base) \o NonDirectories(base)
            ELSE files = base

\* C3 witness: an Unsorted sort with list_dirs_first of an input that has
\* a file before a directory.
C3_Witness ==
    /\ Sorted /\ filter.sort_field = Unsorted /\ filter.list_dirs_first
    /\ Len(input) = MaxFiles
    /\ ~is_directory(input[1]) /\ is_directory(input[2])
    /\ files # input

\* The key order of a sequence read backwards: no entry is followed by
\* one that compare_files puts after it.
KeyOrderReversed(v) ==
    \A i, j \in DOMAIN v : i < j => compare_files(filter, v[i], v[j]) # "Less"

\* C4: the reversal comes after the key sort and before the regrouping:
\* with reverse on and list_dirs_first off the output is the reversal of
\* the output for reverse off; with both on the directories come first and
\* each group is in the reversed key order.
C4_ReverseBetweenSortAndRegroup ==
    (Sorted /\ filter.reverse) =>
        IF ~filter.list_dirs_first
        THEN files = Reverse(OutputWith(FALSE, FALSE))
        ELSE /\ DirectoriesFirst(files)
             /\ Directories(files) = Directories(Reverse(OutputWith(FALSE, FALSE)))
             /\ NonDirectories(files) = NonDirectories(Reverse(OutputWith(FALSE, FALSE)))
             /\ KeyOrderReversed(Directories(files))
             /\ KeyOrderReversed(NonDirectories(files))

\* C4 witness: reverse and list_dirs_first both on, two directories and a
\* file whose keys all differ, the file first in the reversed key order.
C4_Witness ==
    /\ Sorted /\ filter.reverse /\ filter.list_dirs_first
    /\ Len(Directories(files)) = 2 /\ Len(NonDirectories(files)) = 1
    /\ ~is_directory(Reverse(OutputWith(FALSE, FALSE))[1])
    /\ \A a, b \in Elements(files) :
          a # b => compare_files(filter, a, b) # "Equal"

\* The metadata field a numeric sort field compares.
NumericFields == {Size, FileInode, ModifiedDate, AccessedDate, CreatedDate}

FieldOf(field, f) ==
    CASE field = Size         -> f.len
      [] field = FileInode    -> f.ino
      [] field = ModifiedDate -> f.mtime
      [] field = AccessedDate -> f.atime
      [] field = CreatedDate  -> f.ctime

NonDecreasing(field, v) ==
    \A i, j \in DOMAIN v : i < j => FieldOf(field, v[i]) <= FieldOf(field, v[j])

\* C5: with a numeric sort field and reverse off, the output is in
\* non-decreasing order of that field within the directories and within
\* the non-directories (and as a whole when list_dirs_first is off); the
\* entries b.txt (100), a.txt (5000), Dir (directory, 0) sorted by Size
\* with list_dirs_first come out as Dir, b.txt, a.txt.
C5_NumericAscending ==
    (Sorted /\ filter.sort_field \in NumericFields /\ ~filter.reverse) =>
        /\ NonDecreasing(filter.sort_field, Directories(files))
        /\ NonDecreasing(filter.sort_field, NonDirectories(files))
        /\ ~filter.list_dirs_first => NonDecreasing(filter.sort_field, files)
        /\ ( /\ input = <<F_b_txt, F_a_txt, F_Dir>>
             /\ filter.sort_field = Size
             /\ filter.list_dirs_first )
                => files = <<F_Dir, F_b_txt, F_a_txt>>

\* C5 witness: the scenario's input sorted by Size with list_dirs_first.
C5_Witness ==
    /\ Sorted /\ filter.sort_field = Size /\ ~filter.reverse
    /\ filter.list_dirs_first
    /\ input = <<F_b_txt, F_a_txt, F_Dir>>
    /\ files = <<F_Dir, F_b_txt, F_a_txt>>

N_file2  == <<"f", "i", "l", "e", "2">>
N_file10 == <<"f", "i", "l", "e", "1", "0">>
N_File   == <<"F", "i", "l", "e">>
N_file   == <<"f", "i", "l", "e">>

NameFields == {Name(c) : c \in SortCase}

\* C6: under Name, compare_files puts "file2" before "file10" (and sort_files
\* lists it first); under Name(Insensitive) "File" and "file" compare Equal
\* and compare alike with every third name; under Name(Sensitive) "File"
\* comes before "file".
C6_NaturalOrderNames ==
    /\ \A a, b \in Elements(input) :
        /\ (filter.sort_field \in NameFields
                /\ a.name = N_file2 /\ b.name = N_file10)
              => /\ compare_files(filter, a, b) = "Less"
                 /\ compare_files(filter, b, a) = "Greater"
                 /\ (Sorted /\ ~filter.reverse /\ ~filter.list_dirs_first)
                        => Before(files, a, b)
        /\ (filter.sort_field = Name(Insensitive)
                /\ a.name = N_File /\ b.name = N_file)
              => /\ compare_files(filter, a, b) = "Equal"
                 /\ \A c \in SortUniverse :
                        compare_files(filter, a, c) = compare_files(filter, b, c)
        /\ (filter.sort_field = Name(Sensitive)
                /\ a.name = N_File /\ b.name = N_file)
              => /\ compare_files(filter, a, b) = "Less"
                 /\ (Sorted /\ ~filter.reverse /\ ~filter.list_dirs_first)
                        => Before(files, a, b)

\* C6 witness: a sort by name that had to move "file2" in front of
\* "file10", with "File" in the input as well.
C6_Witness ==
    /\ Sorted /\ filter.sort_field \in NameFields
    /\ ~filter.reverse /\ ~filter.list_dirs_first
    /\ input = <<F_file10, F_file, F_file2>>
    /\ files = <<F_file, F_file2, F_file10>>

\* The extension with its letters lowercased: the key of a case-insensitive
\* comparison of extensions.
LowerExt(name) == [i \in 1..Len(Ext(name)) |-> ToLowercase(Ext(name)[i])]

\* C7 as claimed: under Extension(Insensitive) two entries whose extensions
\* differ only in letter case are ordered by the name tie-break; under both
\* sub-modes entries with equal extensions are ordered by the natural-order
\* comparison of their names.
C7_ExtensionHonoursCase ==
    (Sorted /\ ~filter.reverse /\ ~filter.list_dirs_first) =>
        \A a, b \in Elements(input) :
            /\ (filter.sort_field = Extension(Insensitive)
                    /\ LowerExt(a.name) = LowerExt(b.name))
                  => /\ compare_files(filter, a, b)
                            = NatordCompareIgnoreCase(a.name, b.name)
                     /\ NatordCompareIgnoreCase(a.name, b.name) = "Less"
                            => Before(files, a, b)
            /\ (filter.sort_field = Extension(Sensitive)
                    /\ Ext(a.name) = Ext(b.name))
                  => /\ compare_files(filter, a, b)
                            = NatordCompare(a.name, b.name)
                     /\ NatordCompare(a.name, b.name) = "Less"
                            => Before(files, a, b)

----------------------------------------------------------------------------
(* Properties of the ignore patterns and the filter, checked under SpecFilter *)

\* The strings of a list that compile, and those that do not, in order.
Compiling(iter) == SelectSeq(iter, LAMBDA str : PatternNew(str).ok)
Failing(iter)   == SelectSeq(iter, LAMBDA str : ~PatternNew(str).ok)

\* Some string given to parse_from_iter is a pattern that matches the name.
SomePatternMatches(name) ==
    \E str \in Elements(pattern_input) :
        PatternNew(str).ok /\ PatternMatches(PatternNew(str).tokens, name)

Filtered == op \in {"filter_child_files", "filter_argument_files"}

\* C8: a name is ignored iff at least one pattern of the set matches it:
\* the filter removes exactly the entries that some pattern matches, the
\* empty set ignores no name, and the set built from the same strings in the
\* opposite order ignores the same names.
C8_IgnoredIffSomePatternMatches ==
    \A f \in FilterUniverse :
        /\ is_ignored(filter.ignore_patterns, f) <=> SomePatternMatches(f.name)
        /\ ~is_ignored(IgnorePatternsEmpty, f)
        /\ is_ignored(parse_from_iter(Reverse(pattern_input)).patterns, f)
              <=> is_ignored(filter.ignore_patterns, f)
        /\ (Filtered /\ f \in Elements(input))
              => (f \in Elements(files) <=> ~SomePatternMatches(f.name))

\* C8 witness: a filter with two patterns removed an entry that only the
\* second one matches and kept another entry.
C8_Witness ==
    /\ Filtered /\ Len(filter.ignore_patterns) = 2
    /\ files # <<>>
    /\ \E f \in Elements(input) :
          /\ f \notin Elements(files)
          /\ ~PatternMatches(filter.ignore_patterns[1], f.name)
          /\ PatternMatches(filter.ignore_patterns[2], f.name)

\* C9: parse_from_iter does not stop at a malformed pattern: the set holds
\* the patterns of the inputs that compiled, in input order, the error list
\* one error per input that did not compile, in input order, and the two
\* lengths add up to the number of inputs.
C9_ParseKeepsGoing ==
    (op = "parse_from_iter") =>
        LET good == Compiling(pattern_input)
            bad  == Failing(pattern_input)
        IN  /\ filter.ignore_patterns
                  = [i \in 1..Len(good) |-> PatternNew(good[i]).tokens]
            /\ errors = [i \in 1..Len(bad) |->
                            [pos |-> PatternNew(bad[i]).pos,
                             msg |-> PatternNew(bad[i]).msg]]
            /\ Len(filter.ignore_patterns) + Len(errors) = Len(pattern_input)

\* C9 witness: a malformed string followed by a well-formed one: one error
\* and one pattern.
C9_Witness ==
    /\ op = "parse_from_iter"
    /\ Len(pattern_input) = 2
    /\ ~PatternNew(pattern_input[1]).ok /\ PatternNew(pattern_input[2]).ok
    /\ Len(filter.ignore_patterns) = 1 /\ Len(errors) = 1

NotMatched(v) == SelectSeq(v, LAMBDA f : ~SomePatternMatches(f.name))

----------------------------------------------------------------------------
(* Properties of the directory listing *)

\* The entries of v whose name does not start with ".", in order.
NonDotEntries(v) == SelectSeq(v, LAMBDA f : ~IsDotName(f.name))

\* C12: of a directory's entries, one whose name starts with "." is in
\* the filtered output only if the dot filter permits dot-files, "." and
\* ".." only under the most permissive setting, and the dot filter removes
\* no entry whose name does not start with ".".
C12_DotFilterHidesOnlyDotNames ==
    /\ op = "dir_files" =>
          /\ \A f \in Elements(files) :
                /\ IsDotName(f.name) => filter.dot_filter \in {Dotfiles, DotfilesAndDots}
                /\ IsDots(f.name) => filter.dot_filter = DotfilesAndDots
          /\ NonDotEntries(files) = NonDotEntries(NotMatched(input))
    /\ op = "transform_files" =>
          /\ \A f \in Elements(files) : IsDotName(f.name) => options.showInvisibles
          /\ Elements(NonDotEntries(input)) \subseteq Elements(files)

\* C12 witness: under Dotfiles a listing with ".", a dot-file and another
\* file kept the dot-file and the other file and dropped ".".
C12_Witness ==
    /\ op = "dir_files"
    /\ filter.dot_filter = Dotfiles
    /\ Elements(input) = {F_dot, F_dot_b, F_file2}
    /\ Elements(files) = {F_dot_b, F_file2}

----------------------------------------------------------------------------
(* Properties of the grid view *)

Rendered == op = "render"

\* The cells of the render.
RenderCells == GridCells(render.files)

\* The widest cell of the render, 0 without cells.
WidestCell == Max({RenderCells[i].width : i \in DOMAIN RenderCells})

\* In a grid of c columns, the widest cells of the columns and the two
\* blanks between neighbouring columns take up no more than width.
FitsIn(c, width) ==
    LET r    == CeilDiv(Len(RenderCells), c)
        col  == [i \in DOMAIN RenderCells |->
                    IF render.opts.across THEN (i - 1) % c ELSE (i - 1) \div r]
        wide == [k \in 0..(c - 1) |->
                    Max({RenderCells[i].width : i \in {j \in DOMAIN col : col[j] = k}})]
    IN  Sum([k \in 1..c |-> wide[k - 1]]) + 2 * (c - 1) <= width

\* C13: for a console at least as wide as the widest cell, fit returns a
\* layout whose columns, each as wide as its widest cell, with two blanks
\* between neighbours, take up no more than console_width, and no larger
\* column count does.
C13_FitReturnsMostColumns ==
    (Rendered /\ render.files # <<>> /\ WidestCell <= render.opts.console_width) =>
        /\ display # DoesNotFit
        /\ display.columns \in 1..Len(RenderCells)
        /\ Len(display.widths) = display.columns
        /\ \A i \in DOMAIN RenderCells :
              \E k \in DOMAIN display.widths : RenderCells[i].width <= display.widths[k]
        /\ Sum(display.widths) + 2 * (display.columns - 1) <= render.opts.console_width
        /\ FitsIn(display.columns, render.opts.console_width)
        /\ \A c \in (display.columns + 1)..Len(RenderCells) :
              ~FitsIn(c, render.opts.console_width)

\* C13 witness: the widths 3, 5, 2, 6 across a console of 17 cells fit in
\* three columns and not in four.
C13_Witness ==
    /\ Rendered
    /\ render.files = <<F_Dir, F_b_txt, F_dot_b, F_file10>>
    /\ render.opts.across
    /\ render.opts.console_width = 17
    /\ display # DoesNotFit
    /\ display.columns = 3

\* What fit returns for the cells of the render in a console of width cw.
FitAt(cw) == fit_into_width(RenderCells, direction(render.opts), cw)

\* C14: of two console widths the wider one fits whenever the narrower one
\* does, and in no fewer columns.
C14_WiderConsoleNoFewerColumns ==
    Rendered =>
        \A narrower \in 0..MaxConsoleWidth :
            (narrower < render.opts.console_width /\ FitAt(narrower).fits) =>
                /\ display.fits
                /\ FitAt(narrower).columns <= display.columns

\* C14 witness: a narrower console fits the same cells in fewer columns.
C14_Witness ==
    /\ Rendered
    /\ display.fits
    /\ \E narrower \in 0..MaxConsoleWidth :
          /\ narrower < render.opts.console_width
          /\ FitAt(narrower).fits
          /\ FitAt(narrower).columns < display.columns

\* Some cell of the render is wider than the console.
SomeCellTooWide ==
    \E i \in DOMAIN RenderCells : RenderCells[i].width > render.opts.console_width

\* C15: fit returns DoesNotFit exactly when some cell is wider than the
\* console; otherwise, given a cell, it returns a layout.
C15_DoesNotFitIffCellTooWide ==
    Rendered =>
        /\ (display = DoesNotFit) <=> SomeCellTooWide
        /\ (~SomeCellTooWide /\ render.files # <<>>) =>
              /\ display.fits
              /\ display.columns >= 1
              /\ display.num_lines >= 1

\* C15 witness: the widest cell is exactly as wide as the console and the
\* cells are laid out.
C15_Witness ==
    /\ Rendered
    /\ Len(render.files) >= 2
    /\ WidestCell = render.opts.console_width
    /\ display.fits

\* C16: when the files do not fit, the lines written are the files'
\* names, one to a line, in order; when they fit, the lines written are
\* the rows of the grid and nothing else.
C16_FallbackOneNamePerLine ==
    Rendered =>
        /\ display = DoesNotFit =>
              /\ Len(w) = Len(render.files)
              /\ \A i \in DOMAIN w : w[i] = <<render.files[i].name>>
        /\ display # DoesNotFit =>
              /\ Len(w) = display.num_lines
              /\ w = DisplayLines(RenderCells, display, direction(render.opts))

\* C16 witness: three files, one wider than the console, are written one
\* to a line.
C16_Witness ==
    /\ Rendered
    /\ display = DoesNotFit
    /\ Len(render.files) = 3
    /\ Len(w) = 3
    /\ w[1] # w[2]

\* C17: without cells fit returns a layout of zero rows whatever the
\* console width, 0 included, and the renderer writes no line.
C17_NoCellsNoLines ==
    (Rendered /\ render.files = <<>>) =>
        /\ display.fits
        /\ display.num_lines = 0
        /\ w = <<>>
        /\ \A cw \in 0..MaxConsoleWidth :
              FitAt(cw).fits /\ FitAt(cw).num_lines = 0

\* C17 witness: no file was rendered in a console of width 0.
C17_Witness ==
    /\ Rendered
    /\ render.files = <<>>
    /\ render.opts.console_width = 0
    /\ display.fits

----------------------------------------------------------------------------
(* Properties of the table *)

Printed == op = "exa"

\* The number of characters of a UTF-8 string: its bytes that do not
\* continue a character.
CharCount(bytes) == Cardinality({i \in DOMAIN bytes : bytes[i] < 128 \/ bytes[i] >= 192})

\* The measured width of a cell: the characters left without the style
\* markers.
Measure(cell) == CharCount(strip_formatting(cell))

\* The number of bytes of a cell without its style markers.
ByteLength(cell) == Len(strip_formatting(cell))

\* C18: each column is as wide as the widest measured cell of the column
\* over all rows of the table, the header row among them, and no cell is
\* wider than its column.
C18_ColumnWidthIsMaxMeasuredWidth ==
    Printed =>
        \A n \in DOMAIN options.columns :
            /\ column_widths[n] = Max({Measure(table[i][n]) : i \in DOMAIN table})
            /\ \A i \in DOMAIN table : Measure(table[i][n]) <= column_widths[n]

\* The cell of row i and column n as pad_string returns it.
Padded(i, n) ==
    pad_string(alignment(options.columns[n]), table[i][n],
               ByteLength(table[i][n]), column_widths[n])

\* C19: in a column of width w that is not the last, each cell has after
\* pad_string an unstyled length of exactly w: the styled text unchanged,
\* followed by blanks only when aligned left and preceded by blanks only
\* when aligned right.
C19_PaddedToColumnWidth ==
    Printed =>
        \A i \in DOMAIN table : \A n \in 1..(Len(options.columns) - 1) :
            LET k == Len(Padded(i, n)) - Len(table[i][n])
            IN  /\ Measure(Padded(i, n)) = column_widths[n]
                /\ alignment(options.columns[n]) = "Left" =>
                      Padded(i, n) = table[i][n] \o Blanks(k)
                /\ alignment(options.columns[n]) = "Right" =>
                      Padded(i, n) = Blanks(k) \o table[i][n]

\* The fields of row i from column n on: each but the last padded to its
\* column, one blank between two fields.
RECURSIVE JoinFields(_, _)
JoinFields(i, n) ==
    IF n > Len(options.columns) THEN <<>>
    ELSE (IF n > 1 THEN <<32>> ELSE <<>>)
         \o (IF n = Len(options.columns) THEN table[i][n] ELSE Padded(i, n))
         \o JoinFields(i, n + 1)

\* s ends with t.
EndsWith(s, t) ==
    Len(t) <= Len(s) /\ SubSeq(s, Len(s) - Len(t) + 1, Len(s)) = t

\* C20: a line of the table is its fields in column order with exactly
\* one blank between two of them, and the last field is the cell as it
\* is: nothing follows it, also when it is aligned right or the only one.
C20_OneBlankBetweenLastUnpadded ==
    Printed =>
        /\ Len(w) = Len(table)
        /\ \A i \in DOMAIN table :
              /\ w[i] = JoinFields(i, 1)
              /\ options.columns # <<>> =>
                    EndsWith(w[i], table[i][Len(options.columns)])

\* C20 witness: the last column is aligned right and one of its cells is
\* narrower than the column; the line ends with the cell, one blank after
\* the padded field before it.
C20_Witness ==
    /\ Printed
    /\ options.columns = <<"Permissions", "FileSize">>
    /\ \E i \in DOMAIN table :
          /\ ByteLength(table[i][2]) < column_widths[2]
          /\ w[i] = Padded(i, 1) \o <<32>> \o table[i][2]

\* exa ran, to its end or not.
ExaRan == op \in {"exa", "exa_failed"}

\* C21: the table of no file and no header row is laid out without an
\* error and no line is printed.
C21_EmptyTableNoErrorNoLine ==
    (ExaRan /\ table = <<>>) => (op = "exa" /\ w = <<>>)

\* The lengths exa measured for the cells of the table.
MeasuredLengths == exa(options, input).lengths

\* C22: the measured width of a cell is the number of its characters
\* without the style markers, a character of several bytes counting once.
C22_MeasuredWidthCountsCharacters ==
    Printed =>
        \A i \in DOMAIN table : \A n \in DOMAIN options.columns :
            MeasuredLengths[i][n] = Measure(table[i][n])

----------------------------------------------------------------------------
(* Deducing the view from the command line: src/options/view.rs.
   A command line is the set of the flags it gives, each at most once, and
   the build's git feature; --time is given with the word "modified". *)

\* The most flags on one command line.
MaxFlags == 3

LONG == "long"
GRID == "grid"
ACROSS == "across"
ONE_LINE == "oneline"
TREE == "tree"
RECURSE == "recurse"
LEVEL == "level"
BINARY == "binary"
BYTES == "bytes"
INODE == "inode"
LINKS == "links"
HEADER == "header"
BLOCKS == "blocks"
TIME == "time"
GROUP == "group"
GIT == "git"

Flags == {LONG, GRID, ACROSS, ONE_LINE, TREE, RECURSE, LEVEL, BINARY, BYTES,
          INODE, LINKS, HEADER, BLOCKS, TIME, GROUP, GIT}

\* Result<T, Misfire>
Ok(v)  == [ok |-> TRUE, v |-> v]
Err(e) == [ok |-> FALSE, e |-> e]

\* Misfire::Useless, Misfire::Useless2, Misfire::Conflict, Misfire::FailedParse
Useless(a, needs, b) == [misfire |-> "Useless", a |-> a, needs |-> needs, b |-> b]
Useless2(a, b1, b2)  == [misfire |-> "Useless2", a |-> a, b1 |-> b1, b2 |-> b2]
Conflict(a, b)       == [misfire |-> "Conflict", a |-> a, b |-> b]
FailedParse          == [misfire |-> "FailedParse"]

\* matches.has(flag)
has(m, flag) == flag \in m.flags

\* Option<usize>
None    == [some |-> FALSE]
Some(n) == [some |-> TRUE, n |-> n]

\* str::parse::<usize> of the characters of a string
RECURSIVE ParseDigits(_, _)
ParseDigits(s, acc) ==
    IF s = <<>> THEN acc
    ELSE ParseDigits(Tail(s), 10 * acc + ToDigit(Ord(Head(s))))

parse_usize(s) ==
    IF s # <<>> /\ \A i \in DOMAIN s : ToDigit(Ord(s[i])) >= 0
    THEN Ok(ParseDigits(s, 0))
    ELSE Err(FailedParse)

\* TerminalWidth::deduce: the COLUMNS variable first, then the terminal
TerminalWidth_deduce(env) ==
    IF env.COLUMNS.some
    THEN LET r == parse_usize(env.COLUMNS.n)
         IN  IF r.ok THEN Ok([kind |-> "Set", width |-> r.v]) ELSE r
    ELSE IF env.TERM_WIDTH.some
    THEN Ok([kind |-> "Terminal", width |-> env.TERM_WIDTH.n])
    ELSE Ok([kind |-> "Unset"])

\* TerminalWidth::width
width(tw) == IF tw.kind \in {"Set", "Terminal"} THEN Some(tw.width) ELSE None

\* SizeFormat::deduce
SizeFormat_deduce(m) ==
    IF has(m, BINARY) /\ has(m, BYTES) THEN Err(Conflict(BINARY, BYTES))
    ELSE IF has(m, BINARY) THEN Ok("BinaryBytes")
    ELSE IF has(m, BYTES) THEN Ok("JustBytes")
    ELSE Ok("DecimalBytes")

\* TimeTypes::deduce, for no --time or --time=modified and none of
\* --modified, --created, --accessed
TimeTypes_deduce(m) ==
    IF has(m, TIME) THEN Ok("modified") ELSE Ok("default")

\* TableOptions::deduce
TableOptions_deduce(m) ==
    LET size_format == SizeFormat_deduce(m)
        time_types  == TimeTypes_deduce(m)
    IN  IF ~size_format.ok THEN size_format
        ELSE IF ~time_types.ok THEN time_types
        ELSE Ok([size_format |-> size_format.v,
                 time_types  |-> time_types.v,
                 inode  |-> has(m, INODE),
                 links  |-> has(m, LINKS),
                 blocks |-> has(m, BLOCKS),
                 group  |-> has(m, GROUP),
                 git    |-> m.cfg_git /\ has(m, GIT)])

\* Mode::Lines, Mode::Grid, Mode::Details, Mode::GridDetails
Lines == [mode |-> "Lines"]
Grid(across, console_width) ==
    [mode |-> "Grid", across |-> across, console_width |-> console_width]
Details(details) == [mode |-> "Details", details |-> details]
GridDetails(grid, details) ==
    [mode |-> "GridDetails", grid |-> grid, details |-> details]

\* details::Options with and without a table
DetailsTable(t, h) == [table |-> Some(t), header |-> h]
DetailsNoTable     == [table |-> None, header |-> FALSE]

\* the closure long of Mode::deduce
long(m) ==
    IF has(m, ACROSS) /\ ~has(m, GRID) THEN Err(Useless(ACROSS, TRUE, LONG))
    ELSE IF has(m, ONE_LINE) THEN Err(Useless(ONE_LINE, TRUE, LONG))
    ELSE LET t == TableOptions_deduce(m)
         IN  IF t.ok THEN Ok(DetailsTable(t.v, has(m, HEADER))) ELSE t

\* the order in which long_options_scan looks for long-view options
LongOnlyOptions == <<BINARY, BYTES, INODE, LINKS, HEADER, BLOCKS, TIME, GROUP>>

\* the first option of the list from position i on that the command line has
RECURSIVE FirstGiven(_, _, _)
FirstGiven(m, list, i) ==
    IF i > Len(list) THEN None
    ELSE IF has(m, list[i]) THEN Some(list[i])
    ELSE FirstGiven(m, list, i + 1)

\* a scan that gives up the list and looks at --git and --level only
long_options_scan_skips_list(m) ==
    IF m.cfg_git /\ has(m, GIT) THEN Err(Useless(GIT, FALSE, LONG))
    ELSE IF has(m, LEVEL) /\ ~has(m, RECURSE) /\ ~has(m, TREE)
    THEN Err(Useless2(LEVEL, RECURSE, TREE))
    ELSE Ok("unit")

\* the closure long_options_scan of Mode::deduce
long_options_scan(m) ==
    LET first == FirstGiven(m, LongOnlyOptions, 1)
    IN  IF first.some THEN Err(Useless(first.n, FALSE, LONG))
        ELSE IF m.cfg_git /\ has(m, GIT) THEN Err(Useless(GIT, FALSE, LONG))
        ELSE IF has(m, LEVEL) /\ ~has(m, RECURSE) /\ ~has(m, TREE)
        THEN Err(Useless2(LEVEL, RECURSE, TREE))
        ELSE Ok("unit")

\* a scan of the other options that makes a grid of an unknown width
other_options_scan_grid_without_width(m, env) ==
    LET tw == TerminalWidth_deduce(env)
    IN  IF ~tw.ok THEN tw
        ELSE IF has(m, ONE_LINE)
        THEN IF has(m, ACROSS) THEN Err(Useless(ACROSS, TRUE, ONE_LINE))
             ELSE Ok(Lines)
        ELSE IF has(m, TREE) THEN Ok(Details(DetailsNoTable))
        ELSE Ok(Grid(has(m, ACROSS),
                     IF width(tw.v).some THEN width(tw.v).n ELSE 0))

\* the closure other_options_scan of Mode::deduce
other_options_scan(m, env) ==
    LET tw == TerminalWidth_deduce(env)
    IN  IF ~tw.ok THEN tw
        ELSE IF width(tw.v).some
        THEN IF has(m, ONE_LINE)
             THEN IF has(m, ACROSS) THEN Err(Useless(ACROSS, TRUE, ONE_LINE))
                  ELSE Ok(Lines)
             ELSE IF has(m, TREE) THEN Ok(Details(DetailsNoTable))
             ELSE Ok(Grid(has(m, ACROSS), width(tw.v).n))
        ELSE IF has(m, TREE) THEN Ok(Details(DetailsNoTable))
             ELSE Ok(Lines)

\* Mode::deduce
Mode_deduce(m, env) ==
    IF has(m, LONG)
    THEN LET details == long(m)
         IN  IF ~details.ok THEN details
             ELSE IF has(m, GRID)
             THEN LET other == other_options_scan(m, env)
                  IN  IF ~other.ok THEN other
                      ELSE IF other.v.mode = "Grid"
                      THEN Ok(GridDetails(other.v, details.v))
                      ELSE other
             ELSE Ok(Details(details.v))
    ELSE LET scan == long_options_scan(m)
         IN  IF ~scan.ok THEN scan ELSE other_options_scan(m, env)

\* The command lines: at most MaxFlags flags, on either build.
RECURSIVE SubsetsUpTo(_, _)
SubsetsUpTo(S, n) ==
    IF n = 0 THEN {{}}
    ELSE LET smaller == SubsetsUpTo(S, n - 1)
         IN  smaller \cup {s \cup {x} : s \in smaller, x \in S}

CommandLines ==
    {[flags |-> fs, cfg_git |-> g] : fs \in SubsetsUpTo(Flags, MaxFlags),
                                     g \in BOOLEAN}

\* The environment: COLUMNS unset, a number or not a number; the terminal's
\* width known or not.
Environments ==
    {[COLUMNS |-> c, TERM_WIDTH |-> t] :
        c \in {None, Some(<<"2", "0">>), Some(<<"?">>)},
        t \in {None, Some(12)}}

InitMode ==
    /\ files = <<>>
    /\ input = <<>>
    /\ filter = FileFilter(FALSE, Name(Sensitive), FALSE, JustFiles, IgnorePatternsEmpty)
    /\ pattern_input = <<>>
    /\ errors = <<>>
    /\ options = "none"
    /\ NoGrid
    /\ NoTable
    /\ matches \in CommandLines
    /\ term_width \in Environments
    /\ deduced = "none"
    /\ NoRest
    /\ w = <<>>
    /\ op = "new"

\* Mode::deduce(&matches)
ModeDeduce ==
    /\ op = "new"
    /\ deduced' = Mode_deduce(matches, term_width)
    /\ op' = "mode_deduce"
    /\ UNCHANGED <<files, input, filter, pattern_input, errors, options,
                   gridVars, tableVars, matches, term_width, restVars, w>>

NextMode == ModeDeduce

SpecMode == InitMode /\ [][NextMode]_vars

----------------------------------------------------------------------------
(* Deducing the colours from the command line: src/options/colours.rs.
   Here a command line is the sequence of its arguments, each a flag with
   its word ("" for a flag that takes none), and the strictness it is read
   with. *)

\* The most arguments on one command line.
MaxArgs == 3

COLOR == "color"
COLOUR == "colour"
COLOR_SCALE == "color-scale"
COLOUR_SCALE == "colour-scale"

Arg(flag, word) == [flag |-> flag, word |-> word]

\* Misfire::Duplicate, Misfire::bad_argument
Duplicate(a, b) == [misfire |-> "Duplicate", a |-> a, b |-> b]
bad_argument(flag, word, choices) ==
    [misfire |-> "BadArgument", a |-> flag, word |-> word, choices |-> choices]

\* The positions of the arguments whose flag is one of the given ones.
Where(m, flagset) == {i \in DOMAIN m.flags : m.flags[i].flag \in flagset}

Min(S) == CHOOSE x \in S : \A y \in S : x <= y

\* MatchedFlags::has_where: the matching flag, the last one when several are
\* allowed, a Duplicate of the first two when they are not
has_where(m, flagset) ==
    LET all == Where(m, flagset)
    IN  IF all = {} THEN Ok(None)
        ELSE IF m.strictness = "UseLastArguments"
        THEN Ok(Some(m.flags[Max(all)].flag))
        ELSE IF Cardinality(all) < 2 THEN Ok(Some(m.flags[Min(all)].flag))
        ELSE LET first == Min(all)
             IN  Err(Duplicate(m.flags[first].flag,
                               m.flags[Min(all \ {first})].flag))

\* MatchedFlags::get_where: the same for the flag's word
get_where(m, flagset) ==
    LET all == Where(m, flagset)
    IN  IF all = {} THEN Ok(None)
        ELSE IF m.strictness = "UseLastArguments"
        THEN Ok(Some(m.flags[Max(all)].word))
        ELSE IF Cardinality(all) < 2 THEN Ok(Some(m.flags[Min(all)].word))
        ELSE LET first == Min(all)
             IN  Err(Duplicate(m.flags[first].flag,
                               m.flags[Min(all \ {first})].flag))

COLOURS == <<"always", "auto", "never">>

\* TerminalColours::deduce
TerminalColours_deduce(m) ==
    LET got == get_where(m, {COLOR, COLOUR})
    IN  IF ~got.ok THEN got
        ELSE IF ~got.v.some THEN Ok("Automatic")
        ELSE LET word == got.v.n
             IN  IF word = "always" THEN Ok("Always")
                 ELSE IF word = "auto" \/ word = "automatic" THEN Ok("Automatic")
                 ELSE IF word = "never" THEN Ok("Never")
                 ELSE Err(bad_argument(COLOR, word, COLOURS))

\* Colours::plain, Colours::colourful
plain == [colourful |-> FALSE, scale |-> FALSE]
colourful(scale) == [colourful |-> TRUE, scale |-> scale]

\* a deduction that takes automatic for always
Colours_deduce_without_widther(m, widther) ==
    LET tc == TerminalColours_deduce(m)
    IN  IF ~tc.ok THEN tc
        ELSE IF tc.v = "Always" \/ tc.v = "Automatic"
        THEN LET scale == has_where(m, {COLOR_SCALE, COLOUR_SCALE})
             IN  IF ~scale.ok THEN scale ELSE Ok(colourful(scale.v.some))
        ELSE Ok(plain)

\* Colours::deduce
Colours_deduce(m, widther) ==
    LET tc == TerminalColours_deduce(m)
    IN  IF ~tc.ok THEN tc
        ELSE IF tc.v = "Always" \/ (tc.v = "Automatic" /\ widther.some)
        THEN LET scale == has_where(m, {COLOR_SCALE, COLOUR_SCALE})
             IN  IF ~scale.ok THEN scale ELSE Ok(colourful(scale.v.some))
        ELSE Ok(plain)

\* The arguments of the tests, in both spellings.
ColourArgs ==
    {Arg(COLOUR, "always"), Arg(COLOR, "never"), Arg(COLOR, "auto"),
     Arg(COLOUR, "automatic"), Arg(COLOR, "upstream"),
     Arg(COLOR_SCALE, ""), Arg(COLOUR_SCALE, "")}

ColourCommandLines ==
    {[flags |-> a, strictness |-> s] :
        a \in Vectors(ColourArgs, MaxArgs),
        s \in {"UseLastArguments", "ComplainAboutRedundantArguments"}}

InitColours ==
    /\ files = <<>>
    /\ input = <<>>
    /\ filter = FileFilter(FALSE, Name(Sensitive), FALSE, JustFiles, IgnorePatternsEmpty)
    /\ pattern_input = <<>>
    /\ errors = <<>>
    /\ options = "none"
    /\ NoGrid
    /\ NoTable
    /\ matches \in ColourCommandLines
    /\ term_width \in {None, Some(80)}
    /\ deduced = "none"
    /\ NoRest
    /\ w = <<>>
    /\ op = "new"

\* Colours::deduce(&matches, widther)
ColoursDeduce ==
    /\ op = "new"
    /\ deduced' = Colours_deduce(matches, term_width)
    /\ op' = "colours_deduce"
    /\ UNCHANGED <<files, input, filter, pattern_input, errors, options,
                   gridVars, tableVars, matches, term_width, restVars, w>>

NextColours == ColoursDeduce

SpecColours == InitColours /\ [][NextColours]_vars

----------------------------------------------------------------------------
(* Comparing files: FileFilter::compare_files on the pairs of three files *)

G_F    == MkFile(<<"F">>,                     "File",         1, 1, 1, 1, 1)
G_f    == MkFile(<<"f">>,                     "File",         2, 2, 1, 2, 1)
G_f1   == MkFile(<<"f", "1">>,                "Directory",    0, 3, 2, 1, 2)
G_f_1  == MkFile(<<"f", " ", "1">>,           "Directory",    0, 4, 2, 2, 2)
G_f01  == MkFile(<<"f", "0", "1">>,           "Symlink",      1, 5, 3, 1, 1)
G_f10  == MkFile(<<"f", "1", "0">>,           "File",         2, 6, 1, 3, 2)
G_f2   == MkFile(<<"f", "2">>,                "NamedPipe",    0, 7, 2, 3, 3)
G_f_t  == MkFile(<<"f", ".", "t">>,           "File",         1, 8, 3, 2, 3)
G_F_T  == MkFile(<<"F", ".", "T">>,           "Directory",    2, 9, 3, 3, 1)
G_f2_t == MkFile(<<"f", "2", ".", "t">>,      "Symlink",      0, 10, 1, 1, 3)
G_f10t == MkFile(<<"f", "1", "0", ".", "t">>, "BlockSpecial", 1, 11, 2, 2, 1)
G_1    == MkFile(<<"1">>,                     "Socket",       2, 12, 3, 3, 3)

\* The entries compare_files is applied to.
CompareUniverse ==
    {G_F, G_f, G_f1, G_f_1, G_f01, G_f10, G_f2, G_f_t, G_F_T, G_f2_t, G_f10t, G_1}

\* Three files, in any order and with repeats, and any sort field.
InitCompare ==
    /\ files \in [1..3 -> CompareUniverse]
    /\ input = files
    /\ \E f \in SortField :
          filter = FileFilter(FALSE, f, FALSE, JustFiles, IgnorePatternsEmpty)
    /\ pattern_input = <<>>
    /\ errors = <<>>
    /\ options = "none"
    /\ NoGrid
    /\ NoTable
    /\ NoLater
    /\ w = <<>>
    /\ op = "new"

\* filter.compare_files(a, b) for every two of the files
CompareFiles ==
    /\ op = "new"
    /\ ordering' = [p \in (DOMAIN files) \X (DOMAIN files) |->
                       compare_files(filter, files[p[1]], files[p[2]])]
    /\ op' = "compare_files"
    /\ UNCHANGED <<files, input, filter, pattern_input, errors, options,
                   gridVars, tableVars, optVars, gitVars, dirs, painted, unix, w>>

NextCompare == CompareFiles

SpecCompare == InitCompare /\ [][NextCompare]_vars

----------------------------------------------------------------------------
(* Git statuses: src/feature/git.rs.  A path is the sequence of its
   components, a git2::Status the set of its flags; git holds the statuses
   and the colours they are painted with. *)

\* The most paths the repository has a status for.
MaxStatuses == 3

INDEX_NEW        == "INDEX_NEW"
INDEX_MODIFIED   == "INDEX_MODIFIED"
INDEX_DELETED    == "INDEX_DELETED"
INDEX_RENAMED    == "INDEX_RENAMED"
INDEX_TYPECHANGE == "INDEX_TYPECHANGE"
WT_NEW           == "WT_NEW"
WT_MODIFIED      == "WT_MODIFIED"
WT_DELETED       == "WT_DELETED"
WT_RENAMED       == "WT_RENAMED"
WT_TYPECHANGE    == "WT_TYPECHANGE"
IGNORED          == "IGNORED"

\* Style::paint with the colours on or off
colours_paint(c, code, text) == IF c.colourful THEN Paint(code, text) ELSE text

\* Git::working_tree_status
working_tree_status(c, status) ==
    IF WT_NEW \in status THEN colours_paint(c, 50, <<65>>)
    ELSE IF WT_MODIFIED \in status THEN colours_paint(c, 52, <<77>>)
    ELSE IF WT_DELETED \in status THEN colours_paint(c, 49, <<68>>)
    ELSE IF WT_RENAMED \in status THEN colours_paint(c, 51, <<82>>)
    ELSE IF WT_TYPECHANGE \in status THEN colours_paint(c, 53, <<84>>)
    ELSE colours_paint(c, 55, <<45>>)

\* Git::index_status
index_status(c, status) ==
    IF INDEX_NEW \in status THEN colours_paint(c, 50, <<65>>)
    ELSE IF INDEX_MODIFIED \in status THEN colours_paint(c, 52, <<77>>)
    ELSE IF INDEX_DELETED \in status THEN colours_paint(c, 49, <<68>>)
    ELSE IF INDEX_RENAMED \in status THEN colours_paint(c, 51, <<82>>)
    ELSE IF INDEX_TYPECHANGE \in status THEN colours_paint(c, 53, <<84>>)
    ELSE colours_paint(c, 55, <<45>>)

\* ANSIStrings(&[a, b]).to_string()
ANSIStrings(a, b) == a \o b

\* Path::starts_with: base is a prefix of the path's components
starts_with(path, base) ==
    Len(base) <= Len(path) /\ SubSeq(path, 1, Len(base)) = base

\* the first status recorded for the path, from position i on
RECURSIVE Find(_, _, _)
Find(statuses, path, i) ==
    IF i > Len(statuses) THEN None
    ELSE IF statuses[i].path = path THEN Some(statuses[i].status)
    ELSE Find(statuses, path, i + 1)

\* Git::status
status(self, path) ==
    LET found == Find(self.statuses, path, 1)
    IN  IF found.some
        THEN ANSIStrings(index_status(self.c, found.n),
                         working_tree_status(self.c, found.n))
        ELSE colours_paint(self.c, 55, <<45, 45>>)

\* a fold over the statuses under the directory that keeps the last one
RECURSIVE FoldLast(_, _, _, _)
FoldLast(statuses, dir, i, a) ==
    IF i > Len(statuses) THEN a
    ELSE FoldLast(statuses, dir, i + 1,
                  IF starts_with(statuses[i].path, dir)
                  THEN statuses[i].status ELSE a)

\* filter(|p| p.0.starts_with(dir)).fold(Status::empty(), |a, b| a | b.1)
RECURSIVE Fold(_, _, _, _)
Fold(statuses, dir, i, a) ==
    IF i > Len(statuses) THEN a
    ELSE Fold(statuses, dir, i + 1,
              IF starts_with(statuses[i].path, dir)
              THEN a \cup statuses[i].status ELSE a)

\* Git::dir_status
dir_status(self, dir) ==
    LET s == Fold(self.statuses, dir, 1, {})
    IN  ANSIStrings(index_status(self.c, s), working_tree_status(self.c, s))

StatusEntry(path, st) == [path |-> path, status |-> st]

\* The statuses a scan can find.
StatusUniverse ==
    {StatusEntry(<<"r", "a">>, {WT_NEW}),
     StatusEntry(<<"r", "d", "x">>, {INDEX_MODIFIED}),
     StatusEntry(<<"r", "d", "y">>, {INDEX_NEW, WT_MODIFIED}),
     StatusEntry(<<"r", "d", "z">>, {INDEX_RENAMED, WT_TYPECHANGE}),
     StatusEntry(<<"r", "dx">>, {WT_DELETED, INDEX_DELETED}),
     StatusEntry(<<"r", "e">>, {IGNORED}),
     StatusEntry(<<"r", "f">>, {INDEX_TYPECHANGE, WT_RENAMED})}

\* The paths a status is asked for.
StatusPaths ==
    {<<"r">>, <<"r", "d">>, <<"r", "a">>, <<"r", "d", "x">>, <<"r", "dx">>,
     <<"r", "b">>, <<"q">>}

InitGit ==
    /\ files = <<>>
    /\ input = <<>>
    /\ filter = FileFilter(FALSE, Name(Sensitive), FALSE, JustFiles, IgnorePatternsEmpty)
    /\ pattern_input = <<>>
    /\ errors = <<>>
    /\ options = "none"
    /\ NoGrid
    /\ NoTable
    /\ NoOptions
    /\ \E v \in Vectors(StatusUniverse, MaxStatuses), on \in BOOLEAN :
          git = [statuses |-> v, c |-> [colourful |-> on]]
    /\ git_path = "none"
    /\ git_status = "none"
    /\ dirs = <<>>
    /\ painted = <<>>
    /\ unix = "none"
    /\ ordering = "none"
    /\ w = <<>>
    /\ op = "new"

\* git.status(&colours, path)
GitStatus ==
    /\ \E path \in StatusPaths :
          /\ git_path' = path
          /\ git_status' = status(git, path)
    /\ op' = "status"
    /\ UNCHANGED <<files, input, filter, pattern_input, errors, options,
                   gridVars, tableVars, optVars, git, dirs, painted, unix,
                   ordering, w>>

\* git.dir_status(&colours, dir)
GitDirStatus ==
    /\ \E dir \in StatusPaths :
          /\ git_path' = dir
          /\ git_status' = dir_status(git, dir)
    /\ op' = "dir_status"
    /\ UNCHANGED <<files, input, filter, pattern_input, errors, options,
                   gridVars, tableVars, optVars, git, dirs, painted, unix,
                   ordering, w>>

NextGit == GitStatus \/ GitDirStatus

SpecGit == InitGit /\ [][NextGit]_vars

----------------------------------------------------------------------------
(* The directories of the command line: main and exa of src/exa.rs.
   dirs holds the directory arguments and the position of the next one; a
   directory argument is its name, whether Dir::readdir succeeds on it and
   the files it then holds. *)

\* The most directories on one command line.
MaxDirs == 3

DirArg(name, readable, fs) == [name |-> name, readable |-> readable, files |-> fs]

D_dot     == DirArg(<<".">>, TRUE, <<T_ab>>)
D_missing == DirArg(<<"x">>, FALSE, <<>>)
D_empty   == DirArg(<<"e">>, TRUE, <<>>)
D_hidden  == DirArg(<<"b">>, TRUE, <<T_dot_b>>)
D_full    == DirArg(<<"f">>, TRUE, <<T_x, T_ab>>)

\* The directories that can be named.
DirArgs == {D_missing, D_empty, D_hidden, D_full}

\* The text of the IoError of a failed readdir.
IoErrorText == <<101, 114, 114>>

\* println!("{}: {}", string, e)
ErrorLine(d) == Utf8(Chars(d.name)) \o <<58, 32>> \o IoErrorText

\* println!("{}:", string)
HeaderLine(d) == Utf8(Chars(d.name)) \o <<58>>

\* the header line, if it is printed, before what exa prints of the table
AfterHeader(print_header, d, r) ==
    [w |-> (IF print_header THEN <<HeaderLine(d)>> ELSE <<>>) \o r.w,
     failed |-> r.failed]

\* exa(options, print_header, string): the lines it prints, and whether the
\* task fails in it
exa_dir(opts, print_header, d) ==
    IF ~d.readable THEN [w |-> <<ErrorLine(d)>>, failed |-> FALSE]
    ELSE AfterHeader(print_header, d, exa(opts, d.files))

\* Any command line of up to MaxDirs directories, with and without a header
\* row and hidden files.
InitMain ==
    /\ files = <<>>
    /\ input = <<>>
    /\ filter = FileFilter(FALSE, Name(Sensitive), FALSE, JustFiles, IgnorePatternsEmpty)
    /\ pattern_input = <<>>
    /\ errors = <<>>
    /\ \E a \in BOOLEAN, h \in BOOLEAN :
          options = Options(a, "Name", FALSE, DefaultColumns, h)
    /\ NoGrid
    /\ NoTable
    /\ NoOptions
    /\ NoGit
    /\ \E args \in UNION {[1..n -> DirArgs] : n \in 0..MaxDirs} :
          dirs = [args |-> args, next |-> 1]
    /\ painted = <<>>
    /\ unix = "none"
    /\ ordering = "none"
    /\ w = <<>>
    /\ op = "new"

\* The directory arguments main works on: "." when none is given.
MainArgs(d) == IF d.args = <<>> THEN <<D_dot>> ELSE d.args

\* The output and the state of the task after a call of exa that printed r.w.
MainTurn(first, r) ==
    /\ w' = w \o (IF first THEN <<>> ELSE << <<>> >>) \o r.w
    /\ op' = IF r.failed THEN "main_failed" ELSE "main"

\* one turn of main: exa(&opts, false, ".") without directory arguments;
\* with them, one turn of the loop: the newline between two directories,
\* then exa(&opts, print_header, dir)
MainNextDir ==
    /\ op \in {"new", "main"}
    /\ dirs.next <= Len(MainArgs(dirs))
    /\ MainTurn(dirs.next = 1,
                exa_dir(options, Len(dirs.args) > 1, MainArgs(dirs)[dirs.next]))
    /\ dirs' = [dirs EXCEPT !.next = @ + 1]
    /\ UNCHANGED <<files, input, filter, pattern_input, errors, options,
                   gridVars, tableVars, optVars, gitVars, painted, unix,
                   ordering>>

NextMain == MainNextDir

SpecMain == InitMain /\ [][NextMain]_vars

----------------------------------------------------------------------------
(* Painting a file name: FileName::coloured_file_name of
   src/output/file_name.rs.  A painted string is its style and the code
   points of its text. *)

\* The longest file name that is painted.
MaxNameLen == 3

\* Style::paint as an ANSIString
ANSIString(style, text) == [style |-> style, text |-> text]

\* a hexadecimal digit as a character
HexDigit(d) == IF d < 10 THEN 48 + d ELSE 87 + d

\* char::escape_default of a character below 0x20
escape_default(c) ==
    IF c = 9 THEN <<92, 116>>
    ELSE IF c = 13 THEN <<92, 114>>
    ELSE IF c = 10 THEN <<92, 110>>
    ELSE <<92, 117, 123>>
         \o (IF c < 16 THEN <<HexDigit(c)>>
             ELSE <<HexDigit(c \div 16), HexDigit(c % 16)>>)
         \o <<125>>

\* FileName::style, for the kinds of file the model has
style(f) ==
    IF f.kind = "Directory" THEN "directory"
    ELSE IF f.kind = "Symlink" THEN "symlink"
    ELSE IF f.kind = "NamedPipe" THEN "pipe"
    ELSE "normal"

\* the loop of coloured_file_name over the characters of the name, with
\* everything from the escape character on taken for printable
RECURSIVE PaintCharsFromEscape(_, _)
PaintCharsFromEscape(file_style, cs) ==
    IF cs = <<>> THEN <<>>
    ELSE <<IF Head(cs) >= 27 THEN ANSIString(file_style, <<Head(cs)>>)
           ELSE ANSIString("control_char", escape_default(Head(cs)))>>
         \o PaintCharsFromEscape(file_style, Tail(cs))

\* the loop of coloured_file_name over the characters of the name
RECURSIVE PaintChars(_, _)
PaintChars(file_style, cs) ==
    IF cs = <<>> THEN <<>>
    ELSE <<IF Head(cs) >= 32 THEN ANSIString(file_style, <<Head(cs)>>)
           ELSE ANSIString("control_char", escape_default(Head(cs)))>>
         \o PaintChars(file_style, Tail(cs))

\* FileName::coloured_file_name
coloured_file_name(f) ==
    LET file_style == style(f)
        cs == Chars(f.name)
    IN  IF \A i \in DOMAIN cs : cs[i] >= 32
        THEN <<ANSIString(file_style, cs)>>
        ELSE PaintChars(file_style, cs)

\* The characters of the names: control characters, among them tab, newline
\* and escape, and printable ones, among them DEL and a non-ASCII one.
NameChars == {"U+0001", "U+0009", "U+000A", "U+001B", " ", "a", "U+007F", "U+00E9"}

\* Any name of up to MaxNameLen characters, of a file of any kind.
InitName ==
    /\ \E name \in UNION {[1..n -> NameChars] : n \in 0..MaxNameLen},
          kind \in {"File", "Directory", "Symlink"} :
          files = <<[name |-> name, kind |-> kind]>>
    /\ input = files
    /\ filter = FileFilter(FALSE, Name(Sensitive), FALSE, JustFiles, IgnorePatternsEmpty)
    /\ pattern_input = <<>>
    /\ errors = <<>>
    /\ options = "none"
    /\ NoGrid
    /\ NoTable
    /\ NoLater
    /\ w = <<>>
    /\ op = "new"

\* FileName::new(file, colours).coloured_file_name()
ColouredFileName ==
    /\ op = "new"
    /\ painted' = coloured_file_name(files[1])
    /\ op' = "coloured_file_name"
    /\ UNCHANGED <<files, input, filter, pattern_input, errors, options,
                   gridVars, tableVars, optVars, gitVars, dirs, unix,
                   ordering, w>>

NextName == ColouredFileName

SpecName == InitName /\ [][NextName]_vars

----------------------------------------------------------------------------
(* The Unix name cache: src/unix.rs.  unix holds the cache and the passwd
   entry of the current user that empty_cache read; the lookups getpwuid and
   getgrgid return any of the entries below, or null. *)

Uids == {0, 1}
Gids == {0, 1}

\* a HashMap, as the function from its keys to their values
EmptyMap == [k \in {} |-> FALSE]
insert(m, k, v) == [x \in (DOMAIN m) \cup {k} |-> IF x = k THEN v ELSE m[x]]
contains_key(m, k) == k \in DOMAIN m

\* The passwd entries getpwuid can return for the current user.
PasswdEntries == {[pw_name |-> "a", pw_uid |-> u, pw_gid |-> g] : u \in Uids, g \in Gids}

\* What getpwuid can return for a user: null, or the user's name.
PasswdLookups == {None, Some("a"), Some("u")}

\* What getgrgid can return for a group: null, or the group's name and the
\* names of its members.
GroupLookups ==
    {None} \cup {Some([gr_name |-> "g", gr_mem |-> mem]) :
                    mem \in {<<>>, <<"a">>, <<"u">>, <<"u", "a">>}}

\* Unix::empty_cache
empty_cache(info) ==
    [user_names  |-> insert(EmptyMap, info.pw_uid, Some(info.pw_name)),
     group_names |-> EmptyMap,
     groups      |-> insert(EmptyMap, info.pw_gid, TRUE),
     uid         |-> info.pw_uid,
     username    |-> info.pw_name]

\* Unix::is_group_member
is_group_member(self, gid) == self.groups[gid]

\* Unix::load_user, pw being what getpwuid returned
load_user(self, uid, pw) ==
    IF pw.some THEN [self EXCEPT !.user_names = insert(@, uid, Some(pw.n))]
    ELSE [self EXCEPT !.user_names = insert(@, uid, None)]

\* Unix::group_membership: the member list holds the name
RECURSIVE group_membership(_, _, _)
group_membership(group, uname, i) ==
    IF i > Len(group) THEN FALSE
    ELSE IF group[i] = uname THEN TRUE
    ELSE group_membership(group, uname, i + 1)

\* Unix::load_group, r being what getgrgid returned
load_group(self, gid, r) ==
    IF ~r.some
    THEN [self EXCEPT !.group_names = insert(@, gid, None),
                      !.groups = insert(@, gid, FALSE)]
    ELSE [self EXCEPT !.groups = IF ~contains_key(@, gid)
                                 THEN insert(@, gid,
                                             group_membership(r.n.gr_mem, self.username, 1))
                                 ELSE @,
                      !.group_names = insert(@, gid, Some(r.n.gr_name))]

\* The cache as empty_cache makes it, for any passwd entry of the user.
InitUnix ==
    /\ files = <<>>
    /\ input = <<>>
    /\ filter = FileFilter(FALSE, Name(Sensitive), FALSE, JustFiles, IgnorePatternsEmpty)
    /\ pattern_input = <<>>
    /\ errors = <<>>
    /\ options = "none"
    /\ NoGrid
    /\ NoTable
    /\ NoOptions
    /\ NoGit
    /\ dirs = <<>>
    /\ painted = <<>>
    /\ \E info \in PasswdEntries : unix = [info |-> info, cache |-> empty_cache(info)]
    /\ ordering = "none"
    /\ w = <<>>
    /\ op = "empty_cache"

\* cache.load_user(uid)
LoadUser ==
    /\ \E uid \in Uids, pw \in PasswdLookups :
          unix' = [unix EXCEPT !.cache = load_user(@, uid, pw)]
    /\ op' = "load_user"
    /\ UNCHANGED <<files, input, filter, pattern_input, errors, options,
                   gridVars, tableVars, optVars, gitVars, dirs, painted,
                   ordering, w>>

\* cache.load_group(gid)
LoadGroup ==
    /\ \E gid \in Gids, r \in GroupLookups :
          unix' = [unix EXCEPT !.cache = load_group(@, gid, r)]
    /\ op' = "load_group"
    /\ UNCHANGED <<files, input, filter, pattern_input, errors, options,
                   gridVars, tableVars, optVars, gitVars, dirs, painted,
                   ordering, w>>

NextUnix == LoadUser \/ LoadGroup

SpecUnix == InitUnix /\ [][NextUnix]_vars

----------------------------------------------------------------------------
(* Properties of the view deduction, checked under SpecMode *)

ModeDeduced == op = "mode_deduce"

\* The options the claim names as belonging to the long view.
LongViewOptions == {BINARY, BYTES, HEADER, GROUP, INODE, LINKS, BLOCKS}

NoneEarlier(i) == \A j \in 1..(i - 1) : ~has(matches, LongOnlyOptions[j])

WidthFound == TerminalWidth_deduce(term_width)
WidthUnknown == WidthFound.ok /\ ~width(WidthFound.v).some
WidthKnown   == WidthFound.ok /\ width(WidthFound.v).some

YieldsGridOrGridDetails ==
    deduced.ok /\ deduced.v.mode \in {"Grid", "GridDetails"}

NothingUseless ==
    /\ \A i \in DOMAIN LongOnlyOptions : ~has(matches, LongOnlyOptions[i])
    /\ ~(matches.cfg_git /\ has(matches, GIT))
    /\ ~(has(matches, LEVEL) /\ ~has(matches, RECURSE) /\ ~has(matches, TREE))

----------------------------------------------------------------------------
(* Properties of the colour deduction, checked under SpecColours *)

ColoursDeduced == op = "colours_deduce"

\* The words of the --color and --colour arguments, in order.
RECURSIVE ColourWords(_)
ColourWords(args) ==
    IF args = <<>> THEN <<>>
    ELSE IF Head(args).flag \in {COLOR, COLOUR}
    THEN <<Head(args).word>> \o ColourWords(Tail(args))
    ELSE ColourWords(Tail(args))

\* The number of --color-scale and --colour-scale arguments.
ScaleArgs ==
    Cardinality({i \in DOMAIN matches.flags :
                    matches.flags[i].flag \in {COLOR_SCALE, COLOUR_SCALE}})

\* The word that settles the setting: that of the last argument, "auto" without
\* one.
SettingWord ==
    LET words == ColourWords(matches.flags)
    IN  IF words = <<>> THEN "auto" ELSE words[Len(words)]

\* The command line gives one setting: the word is a setting's, and there is
\* one --color or --colour argument at most where several are an error.
SettingGiven ==
    /\ SettingWord \in {"always", "auto", "automatic", "never"}
    /\ matches.strictness = "ComplainAboutRedundantArguments"
          => Len(ColourWords(matches.flags)) <= 1

SettingAlways    == SettingGiven /\ SettingWord = "always"
SettingAutomatic == SettingGiven /\ SettingWord \in {"auto", "automatic"}
SettingNever     == SettingGiven /\ SettingWord = "never"

YieldsColourful == deduced.ok /\ deduced.v.colourful
YieldsPlain     == deduced = Ok(plain)
ScaleOn         == deduced.ok /\ deduced.v.scale

\* C24 as stated: the colours are colourful exactly when the setting is
\* always, or automatic with a known width; plain for never and for automatic
\* with no width; and the scale is on exactly when a scale flag is given.
C24_ColoursFollowSetting ==
    (ColoursDeduced /\ SettingGiven) =>
        /\ YieldsColourful <=>
              (SettingAlways \/ (SettingAutomatic /\ term_width.some))
        /\ (SettingNever \/ (SettingAutomatic /\ ~term_width.some)) => YieldsPlain
        /\ ScaleOn <=> ScaleArgs > 0

\* Two scale flags where repeated arguments are an error.
ScaleDuplicated ==
    matches.strictness = "ComplainAboutRedundantArguments" /\ ScaleArgs >= 2

\* C24: the colours are plain for never and for automatic with no width;
\* for always, and for automatic with a known width, they are colourful
\* unless two scale flags are rejected as duplicates, and never colourful
\* otherwise; the scale is on exactly when the colours are colourful and a
\* scale flag is given.
C24_ColoursFollowSettingScaleWhenColourful ==
    (ColoursDeduced /\ SettingGiven) =>
        /\ YieldsColourful <=>
              /\ SettingAlways \/ (SettingAutomatic /\ term_width.some)
              /\ ~ScaleDuplicated
        /\ (SettingNever \/ (SettingAutomatic /\ ~term_width.some)) => YieldsPlain
        /\ ScaleOn <=> (YieldsColourful /\ ScaleArgs > 0)

\* automatic with a scale flag: colourful with the scale at a known width.
C24_Witness ==
    /\ ColoursDeduced
    /\ matches.flags = <<Arg(COLOUR, "automatic"), Arg(COLOR_SCALE, "")>>
    /\ term_width = Some(80)
    /\ deduced = Ok(colourful(TRUE))

----------------------------------------------------------------------------
(* Properties of compare_files, checked under SpecCompare *)

Compared == op = "compare_files"

\* Ordering::reverse
OrderingReverse(o) ==
    IF o = "Less" THEN "Greater" ELSE IF o = "Greater" THEN "Less" ELSE "Equal"

\* The place of a file's type category in the order of the type characters:
\* pipes, directories, block devices, links, regular files, the others.
TypeRank(f) ==
    CASE f.kind = "NamedPipe"    -> 1
      [] f.kind = "Directory"    -> 2
      [] f.kind = "BlockSpecial" -> 3
      [] f.kind = "Symlink"      -> 4
      [] f.kind = "File"         -> 5
      [] OTHER                   -> 6

\* C26: for every sort field compare_files is reflexive (a file compares
\* Equal to itself), antisymmetric (comparing b with a gives the reverse of
\* comparing a with b) and transitive (a not after b and b not after c put
\* a not after c, and before c when one of the two is strict); under
\* FileType two files of different type categories are ordered by the fixed
\* order of the categories and two of the same category by the natural
\* order of their names.
C26_CompareFilesTotalOrder ==
    Compared =>
        \A i, j, k \in DOMAIN files :
            /\ ordering[<<i, i>>] = "Equal"
            /\ ordering[<<i, j>>] = OrderingReverse(ordering[<<j, i>>])
            /\ (ordering[<<i, j>>] # "Greater" /\ ordering[<<j, k>>] # "Greater")
                  => /\ ordering[<<i, k>>] # "Greater"
                     /\ ("Less" \in {ordering[<<i, j>>], ordering[<<j, k>>]})
                           => ordering[<<i, k>>] = "Less"
            /\ filter.sort_field = FileType
                  => ordering[<<i, j>>] =
                        IF TypeRank(files[i]) # TypeRank(files[j])
                        THEN Cmp(TypeRank(files[i]), TypeRank(files[j]))
                        ELSE NatordCompare(files[i].name, files[j].name)

\* Under FileType: a pipe named f2 before a directory named f1, that
\* directory before the directory F.T by name, and the pipe before F.T.
C26_Witness ==
    /\ Compared
    /\ filter.sort_field = FileType
    /\ files = <<G_f2, G_f1, G_F_T>>
    /\ ordering[<<1, 2>>] = "Less"
    /\ ordering[<<2, 3>>] = "Greater"
    /\ ordering[<<3, 1>>] = "Greater"

----------------------------------------------------------------------------
(* Properties of the Git statuses, checked under SpecGit *)

\* The status characters, without the style markers.
StatusChars == strip_formatting(git_status)

\* The paths recorded at or under the path asked for, and the union of
\* their statuses.
RecordedUnder ==
    {i \in DOMAIN git.statuses : starts_with(git.statuses[i].path, git_path)}
UnionUnder == UNION {git.statuses[i].status : i \in RecordedUnder}

\* The character of a status among the flags of the index or of the working
\* tree: A, M, D, R, T in this order of precedence, "-" for none.
StatusChar(st, new, modified, deleted, renamed, typechange) ==
    IF new \in st THEN 65
    ELSE IF modified \in st THEN 77
    ELSE IF deleted \in st THEN 68
    ELSE IF renamed \in st THEN 82
    ELSE IF typechange \in st THEN 84
    ELSE 45

IndexChar(st) ==
    StatusChar(st, INDEX_NEW, INDEX_MODIFIED, INDEX_DELETED, INDEX_RENAMED,
               INDEX_TYPECHANGE)
WorkingTreeChar(st) ==
    StatusChar(st, WT_NEW, WT_MODIFIED, WT_DELETED, WT_RENAMED, WT_TYPECHANGE)

\* C27: a status lookup yields exactly two status characters, the index's
\* then the working tree's; status of a path without a recorded status
\* yields "--"; dir_status yields the two characters of the union of the
\* statuses of the recorded paths that start with the directory, "--" when
\* there is none.
C27_TwoStatusCharacters ==
    (op \in {"status", "dir_status"}) =>
        /\ Len(StatusChars) = 2
        /\ \A i \in DOMAIN StatusChars : StatusChars[i] \in {65, 77, 68, 82, 84, 45}
        /\ (op = "status" /\ \A i \in DOMAIN git.statuses :
                                git.statuses[i].path # git_path)
              => StatusChars = <<45, 45>>
        /\ op = "dir_status"
              => /\ StatusChars = <<IndexChar(UnionUnder), WorkingTreeChar(UnionUnder)>>
                 /\ RecordedUnder = {} => StatusChars = <<45, 45>>

\* The directory r/d with r/d/x modified in the index and r/d/z renamed in
\* the index and type-changed in the working tree, and r/dx beside it: "MT".
C27_Witness ==
    /\ op = "dir_status"
    /\ git_path = <<"r", "d">>
    /\ Cardinality(RecordedUnder) = 2
    /\ Len(git.statuses) = 3
    /\ \E i \in DOMAIN git.statuses : git.statuses[i].path = <<"r", "dx">>
    /\ StatusChars = <<77, 84>>

----------------------------------------------------------------------------
(* Properties of the directory loop, checked under SpecMain *)

\* main is over: every directory argument was handled, or the task failed.
MainEnded ==
    \/ op = "main_failed"
    \/ op = "main" /\ dirs.next > Len(dirs.args)

\* The lines the listing of a directory's files consists of.
Listing(d) == exa(options, d.files).w

\* The lines due to the k-th directory argument: one error line and no
\* header when its read fails; the header, when there are several
\* arguments, then its listing when the read succeeds.
BlockOf(k) ==
    LET d == dirs.args[k]
    IN  IF ~d.readable THEN <<ErrorLine(d)>>
        ELSE (IF Len(dirs.args) > 1 THEN <<HeaderLine(d)>> ELSE <<>>) \o Listing(d)

\* The blocks of the first k arguments in argument order, an empty line
\* between two of them.
RECURSIVE BlocksUpTo(_)
BlocksUpTo(k) ==
    IF k = 0 THEN <<>>
    ELSE IF k = 1 THEN BlockOf(1)
    ELSE BlocksUpTo(k - 1) \o << <<>> >> \o BlockOf(k)

\* C28: when main is over, the output is made of the blocks of all the
\* directory arguments in argument order: for a directory whose read fails
\* exactly one error line and no header, for every other one its listing,
\* preceded by its header exactly when more than one directory was given.
C28_EveryDirectoryListedInOrder ==
    (MainEnded /\ dirs.args # <<>>) => w = BlocksUpTo(Len(dirs.args))

----------------------------------------------------------------------------
(* Properties of the painted file name, checked under SpecName *)

NamePainted == op = "coloured_file_name"

\* The code points of the painted file's name.
NamePoints == Chars(files[1].name)

IsControl(c) == c < 32

\* The escape sequences of the control characters of the names: backslash
\* and t or n for tab and newline, \u{..} with the hexadecimal code for the
\* others.
EscapeSequence(c) ==
    CASE c = 9  -> <<92, 116>>
      [] c = 10 -> <<92, 110>>
      [] c = 1  -> <<92, 117, 123, 49, 125>>
      [] c = 27 -> <<92, 117, 123, 49, 98, 125>>

\* C29: no painted string holds a raw control character (below 0x20); a
\* name without control characters is one string, the name in the file's
\* style; otherwise there is one string for each character of the name, in
\* the order of the name: the escape sequence in the control-character style
\* for a control character, the character itself in the file's style for
\* any other.
C29_NoRawControlCharacter ==
    NamePainted =>
        /\ \A i \in DOMAIN painted : \A n \in DOMAIN painted[i].text :
              ~IsControl(painted[i].text[n])
        /\ (\A n \in DOMAIN NamePoints : ~IsControl(NamePoints[n]))
              => painted = <<ANSIString(style(files[1]), NamePoints)>>
        /\ (\E n \in DOMAIN NamePoints : IsControl(NamePoints[n]))
              => /\ Len(painted) = Len(NamePoints)
                 /\ \A n \in DOMAIN NamePoints :
                       painted[n] =
                          IF IsControl(NamePoints[n])
                          THEN ANSIString("control_char", EscapeSequence(NamePoints[n]))
                          ELSE ANSIString(style(files[1]), <<NamePoints[n]>>)

\* The directory named a, escape, e-acute: three strings, the middle one the
\* escape sequence \u{1b} in the control-character style.
C29_Witness ==
    /\ NamePainted
    /\ files[1] = [name |-> <<"a", "U+001B", "U+00E9">>, kind |-> "Directory"]
    /\ painted = <<ANSIString("directory", <<97>>),
                   ANSIString("control_char", <<92, 117, 123, 49, 98, 125>>),
                   ANSIString("directory", <<233>>)>>

----------------------------------------------------------------------------
(* Properties of the Unix name cache, checked under SpecUnix *)

\* C30: from empty_cache on and after any load_user and load_group calls,
\* whatever the lookups return, the current user's primary group has a
\* membership entry and is_group_member of it is true.
C30_PrimaryGroupStaysMember ==
    /\ contains_key(unix.cache.groups, unix.info.pw_gid)
    /\ is_group_member(unix.cache, unix.info.pw_gid)

====
